---- MODULE Spec2Model ----
(***************************************************************************)
(* alsamixer-web: the real-time state synchronisation engine.              *)
(*                                                                         *)
(*   internal/sse   Hub (single control loop) and Client (bounded queue    *)
(*                  plus writer loop)                                      *)
(*   internal/alsa  Monitor (100 ms poller, computeDelta)                  *)
(*   internal/server handlers (write path)                                 *)
(*   web/static/js  mixer-sync.js / mixer-volume.js (reconciler)           *)
(***************************************************************************)
EXTENDS Integers, Sequences, FiniteSets, TLC

(***************************************************************************)
(* Bounds and program constants                                            *)
(***************************************************************************)
\* the SSE connections of the model
Clients == {"c1", "c2"}

\* eventCh: make(chan Event, 10)
QueueCap == 10

\* events published to the hub in SpecHub
MaxEvents == 2

\* events published to the hub in SpecBurst: one more than QueueCap, so that the
\* queue of a stalled client overflows
MaxBurst == 11

\* heartbeat ticks per client
MaxHeartbeats == 1

\* ticks of the poller's 100 ms ticker
MaxTicks == 3

\* changes made to the hardware from outside
MaxHwChanges == 1

\* poll ticks or write requests in which a backend call fails
MaxReadFailures == 1

\* calls of Close by the owner of a client
MaxCloseCalls == 2

\* calls of WriteEvent by the owner of a client
MaxCloseWrites == 2

\* events broadcast while Close is followed step by step
MaxCloseEvents == 2

\* input events (pointer and key) of all browsers together
MaxInputs == 2

\* cooldown timers of one page that have not fired yet
MaxTimers == 2

\* input events of the browsers when the write side of the page is on its own
MaxDragInputs == 3

\* Date.now() when the pages are loaded, in milliseconds
StartTime == 1000

\* the milliseconds that pass between two looks at the clock
TimeStep == 50

\* the milliseconds the clock runs for
MaxElapsed == 150

\* var THROTTLE_MS = 100
THROTTLE_MS == 100

\* the characters of an event's payload
MaxText == 3

\* write requests sent directly to the HTTP interface
MaxRequests == 2

\* writes to the watched config file
MaxConfigEvents == 1

\* clicks on a mute toggle
MaxToggles == 3

\* events that arrive at the page of the cooldown revision
MaxArrivals == 2

\* the goroutines that call Hub.Broadcast: two test publishers, the poller, and
\* the goroutines the request handlers start
Publishers == {"p1", "p2", "mon", "h1", "h2", "h3"}

\* no call in progress
NoEvent == [id |-> 0, type |-> "none"]

VARIABLES
    \* ---- sse.Hub
    hubRunning,     \* Hub.Run is in its loop
    stopCh,         \* h.stop has been closed by Hub.Stop
    hubClients,     \* h.clients
    \* ---- sse.Client, one per connection
    pc,             \* position of the connection's ServeHTTP goroutine
    closed,         \* c.closed (c.done is closed with it)
    cancelled,      \* c.ctx is done
    eventCh,        \* c.eventCh, the outbound queue
    stream,         \* what Client.Run has written to c.writer
    hbCount,        \* heartbeat comments written to c.writer
    \* ---- publishers
    nextId,         \* id of the next event handed to Hub.Broadcast
    pending,        \* per publisher, the event of its Broadcast call blocked on h.broadcast
    precedes,       \* history: <<a, b>> when Broadcast(a) had returned before Broadcast(b) was called
    accepted,       \* history: per client, the events for which WriteEvent returned nil
    \* ---- the audio backend
    hw,             \* card -> control -> what GetVolume and GetMute report
    hwChanges,      \* changes made to the hardware from outside so far
    readFailures,   \* poll ticks in which a backend call failed so far
    \* ---- alsa.Monitor
    monRunning,     \* monitorLoop is in its loop
    ticks,          \* ticks of the poller's ticker so far
    monCur,         \* currentState of the latest tick (Nil when getCurrentState returned nil)
    lastState,      \* m.lastState
    hwLast,         \* history: per control, what changed the hardware last and who was connected
    \* ---- the browsers, one per connection
    loaded,         \* the page has been rendered
    rendered,       \* per slider, aria-valuenow and the mute toggle's aria-checked
    activeSlider,   \* mixer-volume.js: activeSlider
    activeDragControl, \* mixer-sync.js: activeDragControl
    keyHeld,        \* the slider on which the user holds an arrow key down
    consumed,       \* events of the stream the EventSource has dispatched
    posts,          \* write requests in flight
    inputs,         \* input events so far
    touched,        \* history: the sliders the user of the browser has operated
    recentlyModifiedControl, \* the mixer-sync.js with a cooldown: recentlyModifiedControl
    cooldownTimers, \* its setTimeout callbacks that have not run yet
    now,            \* Date.now()
    lastSendTime,   \* per browser: lastSendTime of mixer-volume.js
    lastWrite,      \* per browser: when the interaction in progress last sent a
                    \* write request, NoWrite when it has sent none
    \* ---- the write handlers
    reply,          \* the request handled last, the status of its response, and the
                    \* backend calls that failed while it was handled
    \* ---- Monitor.computeDelta on its own
    dCur, dLast,    \* the arguments current and last
    dOut,           \* the result (changed, delta), NoResult before the call
    \* ---- Event.String as a function
    fEvent,         \* the event it is called on
    fOut,           \* the text it returns, NoResult before the call
    \* ---- Hub.Run step by step
    fan,            \* the fan-out in progress: its event and the clients the range
                    \* has not reached yet; NoFan while Run is in its select
    \* ---- main's shutdown
    shutdown,       \* where main is, whether m.stopCh and the watcher are closed,
                    \* whether configWatcherLoop is in its loop, and the config
                    \* events so far
    \* ---- Client.Close and Client.WriteEvent step by step
    closing         \* who holds c.mu, where each caller is in Close or WriteEvent,
                    \* how often cancel and close(c.done) have been executed, and
                    \* what each caller's last WriteEvent saw and returned

hubVars == <<hubRunning, stopCh, hubClients, pc, closed, cancelled, eventCh, stream,
             hbCount, nextId, pending, precedes, accepted>>

deltaVars == <<dCur, dLast, dOut, fEvent, fOut, fan, shutdown, closing>>

monVars == <<hw, hwChanges, readFailures, monRunning, ticks, monCur, lastState, hwLast>>

coolVars == <<recentlyModifiedControl, cooldownTimers>>

srvVars == <<reply>>

clockVars == <<now, lastSendTime, lastWrite>>

syncVars == <<loaded, rendered, activeSlider, activeDragControl, keyHeld, consumed, posts,
              inputs, touched, coolVars, srvVars, clockVars>>

vars == <<hubVars, deltaVars, monVars, syncVars>>

nonHubVars == <<deltaVars, monVars, syncVars>>

(***************************************************************************)
(* sse.Client                                                              *)
(***************************************************************************)
\* a WriteEvent that does not look at c.closed
WriteEventOkOpen(c) == Len(eventCh[c]) < QueueCap

\* Client.WriteEvent: nil iff the client is not closed and the channel has room
WriteEventOk(c) == ~closed[c] /\ Len(eventCh[c]) < QueueCap

\* a WriteEvent that sends the event twice
WriteEventTwice(c, e) ==
    IF WriteEventOk(c) THEN eventCh[c] \o <<e, e>> ELSE eventCh[c]

\* a WriteEvent whose queue is last-in first-out
WriteEventFront(c, e) ==
    IF WriteEventOk(c) THEN <<e>> \o eventCh[c] ELSE eventCh[c]

\* a WriteEvent that waits for room instead of giving up
WriteEventUnbounded(c, e) == IF ~closed[c] THEN Append(eventCh[c], e) ELSE eventCh[c]

\* the queue of c after WriteEvent(e)
WriteEvent(c, e) == IF WriteEventOk(c) THEN Append(eventCh[c], e) ELSE eventCh[c]

\* Client.Close on every client of the set S: cancel the context, close done, once
CloseAll(S) ==
    /\ closed' = [c \in Clients |-> closed[c] \/ c \in S]
    /\ cancelled' = [c \in Clients |-> cancelled[c] \/ c \in S]

\* a writer loop that does not look at its context
RunCtxIgnored(c) ==
    /\ pc[c] = "run"
    /\ cancelled[c]
    /\ closed[c]
    /\ pc' = [pc EXCEPT ![c] = "exited"]
    /\ UNCHANGED <<hubRunning, stopCh, hubClients, closed, cancelled, eventCh, stream,
                   hbCount, nextId, pending, precedes, accepted>>
    /\ UNCHANGED nonHubVars

\* select case <-c.ctx.Done(): return
RunCtxDone(c) ==
    /\ pc[c] = "run"
    /\ cancelled[c]
    /\ pc' = [pc EXCEPT ![c] = "exited"]
    /\ UNCHANGED <<hubRunning, stopCh, hubClients, closed, cancelled, eventCh, stream,
                   hbCount, nextId, pending, precedes, accepted>>
    /\ UNCHANGED nonHubVars

\* select case <-c.done: return
RunDone(c) ==
    /\ pc[c] = "run"
    /\ closed[c]
    /\ pc' = [pc EXCEPT ![c] = "exited"]
    /\ UNCHANGED <<hubRunning, stopCh, hubClients, closed, cancelled, eventCh, stream,
                   hbCount, nextId, pending, precedes, accepted>>
    /\ UNCHANGED nonHubVars

\* select case <-heartbeat.C: write the comment; a write error closes the client
RunHeartbeat(c) ==
    /\ pc[c] = "run"
    /\ hbCount[c] < MaxHeartbeats
    /\ \E ok \in BOOLEAN :
         IF ok
         THEN /\ hbCount' = [hbCount EXCEPT ![c] = @ + 1]
              /\ UNCHANGED <<pc, closed, cancelled>>
         ELSE /\ CloseAll({c})
              /\ pc' = [pc EXCEPT ![c] = "exited"]
              /\ UNCHANGED hbCount
    /\ UNCHANGED <<hubRunning, stopCh, hubClients, eventCh, stream, nextId, pending,
                   precedes, accepted>>
    /\ UNCHANGED nonHubVars

\* what the writer loop takes from the channel, and what it leaves
RunTake(c) == Head(eventCh[c])

RunRest(c) == Tail(eventCh[c])

\* select case event := <-c.eventCh: write it and flush; a write error closes the client
RunEvent(c) ==
    /\ pc[c] = "run"
    /\ eventCh[c] # << >>
    /\ eventCh' = [eventCh EXCEPT ![c] = RunRest(c)]
    /\ \E ok \in BOOLEAN :
         IF ok
         THEN /\ stream' = [stream EXCEPT ![c] = Append(@, RunTake(c))]
              /\ UNCHANGED <<pc, closed, cancelled>>
         ELSE /\ CloseAll({c})
              /\ pc' = [pc EXCEPT ![c] = "exited"]
              /\ UNCHANGED stream
    /\ UNCHANGED <<hubRunning, stopCh, hubClients, hbCount, nextId, pending, precedes,
                   accepted>>
    /\ UNCHANGED nonHubVars

\* the peer goes away: the request context is cancelled
PeerDisconnect(c) ==
    /\ pc[c] = "run"
    /\ ~cancelled[c]
    /\ cancelled' = [cancelled EXCEPT ![c] = TRUE]
    /\ UNCHANGED <<hubRunning, stopCh, hubClients, pc, closed, eventCh, stream,
                   hbCount, nextId, pending, precedes, accepted>>
    /\ UNCHANGED nonHubVars

\* the owner of the client calls Close (as the tests do)
ClientClose(c) ==
    /\ pc[c] # "none"
    /\ ~closed[c]
    /\ CloseAll({c})
    /\ UNCHANGED <<hubRunning, stopCh, hubClients, pc, eventCh, stream,
                   hbCount, nextId, pending, precedes, accepted>>
    /\ UNCHANGED nonHubVars

(***************************************************************************)
(* sse.Hub                                                                 *)
(***************************************************************************)
\* ServeHTTP: NewClient and the call of Register, whose send on the unbuffered
\* h.register blocks until Run receives it
RegisterCall(c) ==
    /\ pc[c] = "none"
    /\ pc' = [pc EXCEPT ![c] = "registering"]
    /\ UNCHANGED <<hubRunning, stopCh, hubClients, closed, cancelled, eventCh, stream,
                   hbCount, nextId, pending, precedes, accepted>>
    /\ UNCHANGED nonHubVars

\* ServeHTTP: NewClient, then Register, received by Run's case <-h.register;
\* the handler goes on to Client.Run
HubRegister(c) ==
    /\ hubRunning
    /\ pc[c] \in {"none", "registering"}
    /\ hubClients' = hubClients \cup {c}
    /\ pc' = [pc EXCEPT ![c] = "run"]
    /\ UNCHANGED <<hubRunning, stopCh, closed, cancelled, eventCh, stream,
                   hbCount, nextId, pending, precedes, accepted>>
    /\ UNCHANGED nonHubVars

\* an unregister case that closes the client and leaves it in the map
HubUnregisterKeep(c) ==
    /\ hubRunning
    /\ pc[c] = "exited"
    /\ pc' = [pc EXCEPT ![c] = "gone"]
    /\ IF c \in hubClients
       THEN /\ UNCHANGED hubClients
            /\ CloseAll({c})
       ELSE UNCHANGED <<hubClients, closed, cancelled>>
    /\ UNCHANGED <<hubRunning, stopCh, eventCh, stream, hbCount, nextId, pending,
                   precedes, accepted>>
    /\ UNCHANGED nonHubVars

\* ServeHTTP's deferred Unregister once Client.Run has returned, received by
\* Run's case <-h.unregister
HubUnregister(c) ==
    /\ hubRunning
    /\ pc[c] = "exited"
    /\ pc' = [pc EXCEPT ![c] = "gone"]
    /\ IF c \in hubClients
       THEN /\ hubClients' = hubClients \ {c}
            /\ CloseAll({c})
       ELSE UNCHANGED <<hubClients, closed, cancelled>>
    /\ UNCHANGED <<hubRunning, stopCh, eventCh, stream, hbCount, nextId, pending,
                   precedes, accepted>>
    /\ UNCHANGED nonHubVars

\* the ids of the Broadcast calls that have returned
Returned == {i \in 1..(nextId - 1) : \A p \in Publishers : pending[p].id # i}

\* h.broadcast <- event by publisher p; the id numbers the calls
Send(p, e) ==
    /\ pending' = [pending EXCEPT ![p] = e]
    /\ precedes' = precedes \cup {<<a, nextId>> : a \in Returned}
    /\ nextId' = nextId + 1

\* Hub.Broadcast is called by publisher p with a fresh event: the send on the
\* unbuffered h.broadcast blocks until Run receives it
BroadcastCall(p, max) ==
    /\ pending[p] = NoEvent
    /\ nextId <= max
    /\ Send(p, [id |-> nextId, type |-> "test-event"])
    /\ UNCHANGED <<hubRunning, stopCh, hubClients, pc, closed, cancelled, eventCh,
                   stream, hbCount, accepted>>
    /\ UNCHANGED nonHubVars

\* a fan-out that ignores the error of WriteEvent
EvictedNone == {}

\* the clients a fan-out removes: those whose WriteEvent returned an error
Evicted == {c \in hubClients : ~WriteEventOk(c)}

\* the fan-out over h.clients: WriteEvent on each, delete and Close on error
FanOut(e) ==
    /\ eventCh' = [c \in Clients |-> IF c \in hubClients THEN WriteEvent(c, e) ELSE eventCh[c]]
    /\ accepted' = [c \in Clients |->
                      IF c \in hubClients /\ WriteEventOk(c)
                      THEN Append(accepted[c], e) ELSE accepted[c]]
    /\ hubClients' = hubClients \ Evicted
    /\ CloseAll(Evicted)

\* Run's case event := <-h.broadcast: receive p's event (p's call returns) and
\* fan it out
HubBroadcast(p) ==
    /\ hubRunning
    /\ pending[p] # NoEvent
    /\ FanOut(pending[p])
    /\ pending' = [pending EXCEPT ![p] = NoEvent]
    /\ UNCHANGED <<hubRunning, stopCh, pc, stream, hbCount, nextId, precedes>>
    /\ UNCHANGED nonHubVars

\* Hub.Stop: close(h.stop)
HubStop ==
    /\ ~stopCh
    /\ stopCh' = TRUE
    /\ UNCHANGED <<hubRunning, hubClients, pc, closed, cancelled, eventCh, stream,
                   hbCount, nextId, pending, precedes, accepted>>
    /\ UNCHANGED nonHubVars

\* a Run that returns on h.stop and leaves its clients as they are
HubRunStopKeep ==
    /\ hubRunning
    /\ stopCh
    /\ hubRunning' = FALSE
    /\ UNCHANGED <<stopCh, hubClients, pc, closed, cancelled, eventCh, stream, hbCount,
                   nextId, pending, precedes, accepted>>
    /\ UNCHANGED nonHubVars

\* Run's case <-h.stop: close and delete every client, return
HubRunStop ==
    /\ hubRunning
    /\ stopCh
    /\ CloseAll(hubClients)
    /\ hubClients' = {}
    /\ hubRunning' = FALSE
    /\ UNCHANGED <<stopCh, pc, eventCh, stream, hbCount, nextId, pending, precedes,
                   accepted>>
    /\ UNCHANGED nonHubVars

\* Hub.ClientCount
ClientCount == Cardinality(hubClients)

\* NewHub, and no connection yet
HubInit ==
    /\ hubRunning = TRUE
    /\ stopCh = FALSE
    /\ hubClients = {}
    /\ pc = [c \in Clients |-> "none"]
    /\ closed = [c \in Clients |-> FALSE]
    /\ cancelled = [c \in Clients |-> FALSE]
    /\ eventCh = [c \in Clients |-> << >>]
    /\ stream = [c \in Clients |-> << >>]
    /\ hbCount = [c \in Clients |-> 0]
    /\ nextId = 1
    /\ pending = [p \in Publishers |-> NoEvent]
    /\ precedes = {}
    /\ accepted = [c \in Clients |-> << >>]

(***************************************************************************)
(* alsa.StateSnapshot and Monitor.computeDelta                             *)
(***************************************************************************)
\* a nil *StateSnapshot
Nil == [nil |-> TRUE]

\* the sound cards and their mixer controls
CardIds == {0, 1}

CardControls(k) == IF k = 0 THEN {"Master", "PCM"} ELSE {"Mic", "Source"}

\* Control.Type
ControlType(n) ==
    CASE n = "Mic" -> "boolean"
      [] n = "Source" -> "enumerated"
      [] OTHER -> "integer"

\* the controls getCurrentState puts in a snapshot: integer and boolean ones
SnapshotControls(k) == {n \in CardControls(k) : ControlType(n) \in {"integer", "boolean"}}

\* per-channel volumes of an integer control
Volumes == {<<10>>, <<40>>, <<10, 40>>}

\* ControlState: Volume stays empty for a control that is not integer
ControlStates(n) ==
    IF ControlType(n) = "integer"
    THEN [Volume : Volumes, Mute : BOOLEAN]
    ELSE [Volume : {<< >>}, Mute : BOOLEAN]

\* the maps from the names in S to control states
ControlMaps(S) ==
    {f \in [S -> UNION {ControlStates(n) : n \in S}] : \A n \in S : f[n] \in ControlStates(n)}

\* CardState: a map from some of the card's control names to control states
CardStates(k) ==
    UNION {{[Controls |-> f] : f \in ControlMaps(S)} : S \in SUBSET SnapshotControls(k)}

\* the maps from the card ids in K to card states
CardMaps(K) ==
    {g \in [K -> UNION {CardStates(k) : k \in K}] : \A k \in K : g[k] \in CardStates(k)}

\* StateSnapshot: a map from some of the card ids to card states
Snapshots == UNION {{[Cards |-> g] : g \in CardMaps(K)} : K \in SUBSET CardIds}

\* a comparison of the volume arrays that looks at their lengths only
VolumeLenChanged(cur, last) == Len(cur.Volume) # Len(last.Volume)

\* volumeChanged: the lengths differ, or some channel does
VolumeChanged(cur, last) ==
    \/ Len(cur.Volume) # Len(last.Volume)
    \/ \E i \in 1..Len(cur.Volume) : i > Len(last.Volume) \/ cur.Volume[i] # last.Volume[i]

\* the controls of card k that go into cardDelta: new ones and changed ones
DeltaControls(current, last, k) ==
    {n \in DOMAIN current.Cards[k].Controls :
        \/ n \notin DOMAIN last.Cards[k].Controls
        \/ VolumeChanged(current.Cards[k].Controls[n], last.Cards[k].Controls[n])
        \/ current.Cards[k].Controls[n].Mute # last.Cards[k].Controls[n].Mute}

\* DeltaCards of a computeDelta that also takes a control missing from the
\* current snapshot for a change of its card
DeltaCardsWithRemovals(current, last) ==
    {k \in DOMAIN current.Cards :
        \/ k \notin DOMAIN last.Cards
        \/ DOMAIN current.Cards[k].Controls # DOMAIN last.Cards[k].Controls
        \/ \E n \in DOMAIN current.Cards[k].Controls :
              current.Cards[k].Controls[n] # last.Cards[k].Controls[n]}

\* the cards that go into delta: new ones, and those with cardHasChanges
DeltaCards(current, last) ==
    {k \in DOMAIN current.Cards :
        k \notin DOMAIN last.Cards \/ DeltaControls(current, last, k) # {}}

\* a computeDelta that reports every tick as a change
computeDeltaAlways(current, last) == [changed |-> TRUE, delta |-> current]

\* a computeDelta that copies the changed entries from the last snapshot
computeDeltaFromLast(current, last) ==
    IF last = Nil
    THEN [changed |-> TRUE, delta |-> current]
    ELSE IF DeltaCards(current, last) = {}
         THEN [changed |-> FALSE, delta |-> Nil]
         ELSE [changed |-> TRUE,
               delta |-> [Cards |->
                   [k \in DeltaCards(current, last) |->
                       IF k \notin DOMAIN last.Cards
                       THEN current.Cards[k]
                       ELSE [Controls |->
                               [n \in DeltaControls(current, last, k) |->
                                   IF n \in DOMAIN last.Cards[k].Controls
                                   THEN last.Cards[k].Controls[n]
                                   ELSE current.Cards[k].Controls[n]]]]]]

\* Monitor.computeDelta
computeDelta(current, last) ==
    IF last = Nil
    THEN [changed |-> TRUE, delta |-> current]
    ELSE IF DeltaCards(current, last) = {}
         THEN [changed |-> FALSE, delta |-> Nil]
         ELSE [changed |-> TRUE,
               delta |-> [Cards |->
                   [k \in DeltaCards(current, last) |->
                       IF k \notin DOMAIN last.Cards
                       THEN current.Cards[k]
                       ELSE [Controls |->
                               [n \in DeltaControls(current, last, k) |->
                                   current.Cards[k].Controls[n]]]]]]

\* Run is in its select
NoFan == [none |-> TRUE]

\* main waits for a signal; Monitor.Start has started both loops
Serving == [main |-> "serving", stopCh |-> FALSE, watcher |-> "open", cfgLoop |-> TRUE,
            events |-> 0]

\* the callers of Client.Close: Hub.Run, the writer loop Client.Run, and the
\* owner of the client
Closers == {"hub", "writer", "owner"}

\* no WriteEvent has been called
NoWriteCall == [after |-> FALSE, saw |-> FALSE, result |-> "none"]

\* NewClient: c.mu is free, nobody is in Close or WriteEvent, c.done is open
NoClosing ==
    [mu |-> "free", at |-> [t \in Closers |-> "idle"], why |-> "none",
     calls |-> [t \in Closers |-> 0], returned |-> 0,
     cancelCalls |-> 0, doneCloses |-> 0, panicked |-> FALSE,
     writes |-> 0, wr |-> [t \in Closers |-> NoWriteCall]]

\* computeDelta has not been called
NoResult == [called |-> FALSE]

\* Event.String is not under study
FormatParked ==
    /\ fEvent = Nil /\ fOut = NoResult /\ fan = NoFan /\ shutdown = Serving
    /\ closing = NoClosing

DeltaParked == dCur = Nil /\ dLast = Nil /\ dOut = NoResult /\ FormatParked

\* any two snapshots, or a snapshot and no last state
DeltaInit ==
    /\ dCur \in Snapshots
    /\ dLast \in Snapshots \cup {Nil}
    /\ dOut = NoResult
    /\ FormatParked

\* changed, delta := m.computeDelta(currentState, lastState)
DeltaCall ==
    /\ dOut = NoResult
    /\ dOut' = computeDelta(dCur, dLast)
    /\ UNCHANGED <<dCur, dLast, fEvent, fOut, fan, shutdown, closing>>
    /\ UNCHANGED <<hubVars, monVars, syncVars>>

(***************************************************************************)
(* sse.Event.String                                                        *)
(***************************************************************************)
\* the characters of a text: a letter, line feed and carriage return
Chars == {"a", "\n", "\r"}

\* the texts of at most n characters
Texts(n) == UNION {[1..k -> Chars] : k \in 0..n}

\* the events String is called on: ID and Type empty or not, and Data a raw
\* HTML string (IsHTML), a string to be JSON-encoded, or a value that
\* json.Marshal refuses
WireEvents ==
    [ID : {<< >>, <<"a">>}, Type : {<< >>, <<"a">>},
     Kind : {"html", "json"}, Data : Texts(MaxText)]
    \cup [ID : {<< >>, <<"a">>}, Type : {<< >>, <<"a">>}, Kind : {"bad"}, Data : {<< >>}]

\* the escapes json.Marshal writes for the characters of a string
RECURSIVE Escape(_)
Escape(s) ==
    IF s = << >> THEN << >>
    ELSE (IF Head(s) = "\n" THEN <<"\\", "n">>
          ELSE IF Head(s) = "\r" THEN <<"\\", "r">>
          ELSE <<Head(s)>>) \o Escape(Tail(s))

\* json.Marshal of a string
Marshal(s) == <<"\"">> \o Escape(s) \o <<"\"">>

\* strings.ReplaceAll(s, "\r\n", "\n")
RECURSIVE ReplaceCRLF(_)
ReplaceCRLF(s) ==
    IF Len(s) < 2 THEN s
    ELSE IF s[1] = "\r" /\ s[2] = "\n"
         THEN <<"\n">> \o ReplaceCRLF(SubSeq(s, 3, Len(s)))
         ELSE <<s[1]>> \o ReplaceCRLF(Tail(s))

\* strings.Split(s, "\n")
RECURSIVE Split(_)
Split(s) ==
    IF \A i \in 1..Len(s) : s[i] # "\n"
    THEN <<s>>
    ELSE LET i == CHOOSE j \in 1..Len(s) : s[j] = "\n" /\ \A m \in 1..(j - 1) : s[m] # "\n"
         IN  <<SubSeq(s, 1, i - 1)>> \o Split(SubSeq(s, i + 1, Len(s)))

\* result += fmt.Sprintf("data: %s\n", line) for each line
RECURSIVE DataLines(_)
DataLines(lines) ==
    IF lines = << >> THEN << >>
    ELSE <<"data: ">> \o Head(lines) \o <<"\n">> \o DataLines(Tail(lines))

\* the id and event fields of String
Fields(e) ==
    (IF e.ID # << >> THEN <<"id: ">> \o e.ID \o <<"\n">> ELSE << >>)
    \o (IF e.Type # << >> THEN <<"event: ">> \o e.Type \o <<"\n">> ELSE << >>)

\* a String that writes the payload after a single data field
StringOneData(e) ==
    Fields(e) \o <<"data: ">>
    \o (IF e.Kind = "html" THEN e.Data ELSE IF e.Kind = "json" THEN Marshal(e.Data)
        ELSE <<"error">>)
    \o <<"\n", "\n">>

\* Event.String
String(e) ==
    IF e.Kind = "bad"
    THEN Fields(e) \o <<"data: ", "error", "\n", "\n">>
    ELSE Fields(e)
         \o DataLines(Split(ReplaceCRLF(IF e.Kind = "html" THEN e.Data ELSE Marshal(e.Data))))
         \o <<"\n">>

\* String about to be called on any event
FormatInit ==
    /\ dCur = Nil /\ dLast = Nil /\ dOut = NoResult
    /\ fEvent \in WireEvents
    /\ fOut = NoResult
    /\ fan = NoFan
    /\ shutdown = Serving
    /\ closing = NoClosing

\* event.String()
FormatCall ==
    /\ fOut = NoResult
    /\ fOut' = [called |-> TRUE, text |-> String(fEvent)]
    /\ UNCHANGED <<dCur, dLast, dOut, fEvent, fan, shutdown, closing>>
    /\ UNCHANGED <<hubVars, monVars, syncVars>>

(***************************************************************************)
(* Hub.Run, one statement at a time                                        *)
(***************************************************************************)
\* a Run that takes its next case while the range of a fan-out is going on
LoopIdleAlways == TRUE

\* Run is in its select, not in the body of a case
LoopIdle == fan = NoFan

\* case client := <-h.register, and ServeHTTP goes on to Client.Run
LoopRegister(c) == LoopIdle /\ pc[c] = "registering" /\ HubRegister(c)

\* case client := <-h.unregister
LoopUnregister(c) == LoopIdle /\ HubUnregister(c)

\* case <-h.stop
LoopStop == LoopIdle /\ HubRunStop

\* case event := <-h.broadcast: the publisher's send completes and the range
\* over h.clients starts
LoopTake(p) ==
    /\ hubRunning
    /\ LoopIdle
    /\ pending[p] # NoEvent
    /\ fan' = [event |-> pending[p], todo |-> hubClients]
    /\ pending' = [pending EXCEPT ![p] = NoEvent]
    /\ UNCHANGED <<hubRunning, stopCh, hubClients, pc, closed, cancelled, eventCh, stream,
                   hbCount, nextId, precedes, accepted>>
    /\ UNCHANGED <<dCur, dLast, dOut, fEvent, fOut, shutdown, closing, monVars, syncVars>>

\* an iteration of the range whose WriteEvent waits for room in the channel
LoopWriteBlocking(c) ==
    /\ fan # NoFan
    /\ c \in fan.todo
    /\ closed[c] \/ Len(eventCh[c]) < QueueCap
    /\ fan' = [fan EXCEPT !.todo = @ \ {c}]
    /\ eventCh' = [eventCh EXCEPT ![c] = IF closed[c] THEN @ ELSE Append(@, fan.event)]
    /\ IF ~closed[c]
       THEN /\ accepted' = [accepted EXCEPT ![c] = Append(@, fan.event)]
            /\ UNCHANGED <<hubClients, closed, cancelled>>
       ELSE /\ hubClients' = hubClients \ {c}
            /\ CloseAll({c})
            /\ UNCHANGED accepted
    /\ UNCHANGED <<hubRunning, stopCh, pc, stream, hbCount, nextId, pending, precedes>>
    /\ UNCHANGED <<dCur, dLast, dOut, fEvent, fOut, shutdown, closing, monVars, syncVars>>

\* one iteration of the range: client.WriteEvent(event), and on an error
\* delete(h.clients, client) and client.Close()
LoopWrite(c) ==
    /\ fan # NoFan
    /\ c \in fan.todo
    /\ fan' = [fan EXCEPT !.todo = @ \ {c}]
    /\ eventCh' = [eventCh EXCEPT ![c] = WriteEvent(c, fan.event)]
    /\ IF WriteEventOk(c)
       THEN /\ accepted' = [accepted EXCEPT ![c] = Append(@, fan.event)]
            /\ UNCHANGED <<hubClients, closed, cancelled>>
       ELSE /\ hubClients' = hubClients \ {c}
            /\ CloseAll({c})
            /\ UNCHANGED accepted
    /\ UNCHANGED <<hubRunning, stopCh, pc, stream, hbCount, nextId, pending, precedes>>
    /\ UNCHANGED <<dCur, dLast, dOut, fEvent, fOut, shutdown, closing, monVars, syncVars>>

\* the range is over and Run is back at its select
LoopDone ==
    /\ fan # NoFan
    /\ fan.todo = {}
    /\ fan' = NoFan
    /\ UNCHANGED <<hubVars, dCur, dLast, dOut, fEvent, fOut, shutdown, closing, monVars,
                   syncVars>>

\* handlers that call Register and Unregister, two publishers, writer loops
\* and owners that close clients, all concurrent with Run
LoopNext ==
    \/ \E c \in Clients : RegisterCall(c)
    \/ \E c \in Clients : LoopRegister(c)
    \/ \E c \in Clients : LoopUnregister(c)
    \/ \E p \in {"p1", "p2"} : BroadcastCall(p, MaxEvents)
    \/ \E p \in {"p1", "p2"} : LoopTake(p)
    \/ \E c \in Clients : LoopWrite(c)
    \/ LoopDone
    \/ HubStop
    \/ LoopStop
    \/ \E c \in Clients : RunCtxDone(c)
    \/ \E c \in Clients : RunDone(c)
    \/ \E c \in Clients : RunEvent(c)
    \/ \E c \in Clients : PeerDisconnect(c)
    \/ \E c \in Clients : ClientClose(c)

(***************************************************************************)
(* The audio backend and Monitor.monitorLoop                               *)
(***************************************************************************)
\* the hardware at start: every control of every card, unmuted, at volume 10
HwInit ==
    [k \in CardIds |->
        [Controls |-> [n \in CardControls(k) |->
            [Volume |-> IF ControlType(n) = "integer" THEN <<10>> ELSE << >>,
             Mute |-> FALSE]]]]

\* the values a change from outside can give to control n of card k
HwValues(k, n) ==
    {st \in ControlStates(n) :
        /\ Len(st.Volume) = Len(hw[k].Controls[n].Volume)
        /\ st # hw[k].Controls[n]}

\* the connections that are registered with the hub and open
Connected == {c \in hubClients : ~closed[c] /\ ~cancelled[c] /\ pc[c] = "run"}

\* a change made outside the write path (amixer, another program)
HwChange(k, n) ==
    /\ hwChanges < MaxHwChanges
    /\ \E st \in HwValues(k, n) :
         hw' = [hw EXCEPT ![k].Controls[n] = st]
    /\ hwChanges' = hwChanges + 1
    /\ hwLast' = [hwLast EXCEPT ![k][n] = [by |-> "external", seen |-> Connected]]
    /\ UNCHANGED <<readFailures, monRunning, ticks, monCur, lastState>>
    /\ UNCHANGED <<hubVars, deltaVars, syncVars>>

\* the backend calls of one getCurrentState
ReadCalls ==
    {[op |-> "ListCards", card |-> 0, name |-> ""]}
    \cup {[op |-> "ListControls", card |-> k, name |-> ""] : k \in CardIds}
    \cup UNION {{[op |-> "GetVolume", card |-> k, name |-> n] :
                    n \in {m \in CardControls(k) : ControlType(m) = "integer"}} : k \in CardIds}
    \cup UNION {{[op |-> "GetMute", card |-> k, name |-> n] :
                    n \in SnapshotControls(k)} : k \in CardIds}

Fails(F, o, k, n) == [op |-> o, card |-> k, name |-> n] \in F

\* a getCurrentState that goes on with no cards when ListCards fails
getCurrentStateEmpty(h, F) ==
    [Cards |->
        [k \in {j \in DOMAIN h : /\ ~Fails(F, "ListCards", 0, "")
                                 /\ ~Fails(F, "ListControls", j, "")} |->
            [Controls |->
                [n \in {m \in DOMAIN h[k].Controls :
                          /\ ControlType(m) \in {"integer", "boolean"}
                          /\ ControlType(m) = "integer" => ~Fails(F, "GetVolume", k, m)} |->
                    [Volume |-> IF ControlType(n) = "integer"
                                THEN h[k].Controls[n].Volume ELSE << >>,
                     Mute |-> IF Fails(F, "GetMute", k, n)
                              THEN FALSE ELSE h[k].Controls[n].Mute]]]]]

\* Monitor.getCurrentState when the backend calls in F fail
getCurrentState(h, F) ==
    IF Fails(F, "ListCards", 0, "")
    THEN Nil
    ELSE [Cards |->
            [k \in {j \in DOMAIN h : ~Fails(F, "ListControls", j, "")} |->
                [Controls |->
                    [n \in {m \in DOMAIN h[k].Controls :
                              /\ ControlType(m) \in {"integer", "boolean"}
                              /\ ControlType(m) = "integer" => ~Fails(F, "GetVolume", k, m)} |->
                        [Volume |-> IF ControlType(n) = "integer"
                                    THEN h[k].Controls[n].Volume ELSE << >>,
                         Mute |-> IF Fails(F, "GetMute", k, n)
                                  THEN FALSE ELSE h[k].Controls[n].Mute]]]]]

\* Monitor.broadcastDelta's event (the timestamp is left out)
MonitorEvent(delta) ==
    [id |-> nextId, type |-> "mixer-update", source |-> "monitor", state |-> delta]

\* the failing calls of one tick: none, or one while failures may still happen
FailureSets ==
    {{}} \cup (IF readFailures < MaxReadFailures THEN {{f} : f \in ReadCalls} ELSE {})

\* case <-ticker.C when the backend calls in F fail: getCurrentState,
\* computeDelta, and on a change the update of m.lastState and the call of
\* broadcastDelta, which blocks in Hub.Broadcast
MonTickWith(F) ==
    /\ monRunning
    /\ pending["mon"] = NoEvent
    /\ ticks < MaxTicks
    /\ ticks' = ticks + 1
    /\ readFailures' = readFailures + (IF F = {} THEN 0 ELSE 1)
    /\ monCur' = getCurrentState(hw, F)
    /\ IF monCur' # Nil /\ computeDelta(monCur', lastState).changed
       THEN /\ lastState' = monCur'
            /\ Send("mon", MonitorEvent(computeDelta(monCur', lastState).delta))
       ELSE UNCHANGED <<lastState, pending, precedes, nextId>>
    /\ UNCHANGED <<hw, hwChanges, monRunning, hwLast>>
    /\ UNCHANGED <<hubRunning, stopCh, hubClients, pc, closed, cancelled, eventCh,
                   stream, hbCount, accepted>>
    /\ UNCHANGED <<deltaVars, syncVars>>

\* a tick over a backend of which at most one call fails
MonTick == \E F \in FailureSets : MonTickWith(F)

\* a tick in which ListCards succeeds and ListControls fails for every card
MonTickNoControls ==
    MonTickWith({[op |-> "ListControls", card |-> k, name |-> ""] : k \in CardIds})

\* a tick over a backend of which every call fails
MonTickUnavailable == MonTickWith(ReadCalls)

\* Monitor.Stop closes m.stopCh and case <-m.stopCh returns
MonStop ==
    /\ monRunning
    /\ pending["mon"] = NoEvent
    /\ monRunning' = FALSE
    /\ UNCHANGED <<hw, hwChanges, readFailures, ticks, monCur, lastState, hwLast>>
    /\ UNCHANGED <<hubVars, deltaVars, syncVars>>

\* NewMonitor and Start
MonInit ==
    /\ hw = HwInit
    /\ hwChanges = 0
    /\ readFailures = 0
    /\ monRunning = TRUE
    /\ ticks = 0
    /\ monCur = Nil
    /\ lastState = Nil
    /\ hwLast = [k \in CardIds |-> [n \in CardControls(k) |-> [by |-> "none", seen |-> {}]]]

MonNext ==
    \/ \E k \in CardIds : \E n \in SnapshotControls(k) : HwChange(k, n)
    \/ MonTick
    \/ MonStop
    \/ HubBroadcast("mon")
    \/ HubRegister("c1")
    \/ RunEvent("c1")

\* the poller over a backend whose control listings may fail for all cards
MonListNext ==
    \/ \E k \in CardIds : \E n \in SnapshotControls(k) : HwChange(k, n)
    \/ MonTick
    \/ MonTickNoControls
    \/ MonStop
    \/ HubBroadcast("mon")
    \/ HubRegister("c1")
    \/ RunEvent("c1")

(***************************************************************************)
(* The browser: mixer-sync.js and mixer-volume.js                          *)
(***************************************************************************)
\* the volume sliders of the page, which shows the controls of card 0
Sliders == {[card |-> 0, name |-> "Master"], [card |-> 0, name |-> "PCM"]}

\* null, for activeSlider and activeDragControl
NoSlider == [card |-> -1, name |-> ""]

\* the positions the pointer is put at
Levels == {40}

\* clamp
clamp(value, min, max) == IF value < min THEN min ELSE IF value > max THEN max ELSE value

\* fmt.Sprintf("%d", cardID), and the keys of a JSON object
CardKey(k) == IF k = 0 THEN "0" ELSE "1"

\* the event as the browser parses it: the card ids of a snapshot are keys
Payload(e) ==
    IF "state" \notin DOMAIN e
    THEN [type |-> e.type]
    ELSE IF "Cards" \in DOMAIN e.state
         THEN [type |-> e.type, source |-> e.source,
               state |-> [Cards |->
                   [key \in {CardKey(k) : k \in DOMAIN e.state.Cards} |->
                       e.state.Cards[CHOOSE k \in DOMAIN e.state.Cards : CardKey(k) = key]]]]
         ELSE [type |-> e.type, source |-> e.source, state |-> e.state]

\* isCardBased = payload.state.Cards && !payload.state['1']
isCardBased(state) == "Cards" \in DOMAIN state /\ "1" \notin DOMAIN state

\* no entry for a control in a payload
NoEntry == [none |-> TRUE]

\* the entry of the payload that handleMixerUpdate passes on for slider s
StateEntry(state, s) ==
    IF isCardBased(state)
    THEN IF /\ CardKey(s.card) \in DOMAIN state.Cards
            /\ s.name \in DOMAIN state.Cards[CardKey(s.card)].Controls
         THEN state.Cards[CardKey(s.card)].Controls[s.name]
         ELSE NoEntry
    ELSE IF /\ CardKey(s.card) \in DOMAIN state
            /\ s.name \in DOMAIN state[CardKey(s.card)]
         THEN state[CardKey(s.card)][s.name]
         ELSE NoEntry

\* updateVolume and updateMute return early for the control of the active drag
isControlInPayload(c, s) ==
    activeDragControl[c] # NoSlider /\ activeDragControl[c].name = s.name

\* updateVolume and updateMute applied to the entry st of slider s
updateControl(c, s, st) ==
    IF isControlInPayload(c, s)
    THEN rendered[c][s]
    ELSE [Volume |-> IF Len(st.Volume) > 0
                     THEN clamp(st.Volume[1], 0, 100)
                     ELSE rendered[c][s].Volume,
          Mute |-> st.Mute]

\* handleMixerUpdate: what browser c renders after the payload
handleMixerUpdate(c, payload) ==
    IF "state" \notin DOMAIN payload
    THEN rendered[c]
    ELSE IF activeDragControl[c] # NoSlider
         THEN rendered[c]
         ELSE [s \in Sliders |->
                 IF StateEntry(payload.state, s) = NoEntry
                 THEN rendered[c][s]
                 ELSE updateControl(c, s, StateEntry(payload.state, s))]

\* the EventSource dispatches the next event of the stream to its listener
BrowserReceive(c) ==
    /\ loaded[c]
    /\ consumed[c] < Len(stream[c])
    /\ consumed' = [consumed EXCEPT ![c] = @ + 1]
    /\ rendered' = [rendered EXCEPT
                      ![c] = handleMixerUpdate(c, Payload(stream[c][consumed[c] + 1]))]
    /\ UNCHANGED <<loaded, activeSlider, activeDragControl, keyHeld, posts, inputs, touched>>
    /\ UNCHANGED <<hubVars, deltaVars, monVars, coolVars, srvVars, clockVars>>

\* GET /: the page is rendered from what the backend reports
PageLoad(c) ==
    /\ ~loaded[c]
    /\ loaded' = [loaded EXCEPT ![c] = TRUE]
    /\ rendered' = [rendered EXCEPT ![c] =
                      [s \in Sliders |->
                          [Volume |-> hw[s.card].Controls[s.name].Volume[1],
                           Mute |-> hw[s.card].Controls[s.name].Mute]]]
    /\ UNCHANGED <<activeSlider, activeDragControl, keyHeld, consumed, posts, inputs, touched>>
    /\ UNCHANGED <<hubVars, deltaVars, monVars, coolVars, srvVars, clockVars>>

\* new EventSource('/events') once the page is there
Connect(c) == loaded[c] /\ HubRegister(c)

\* htmx.ajax('POST', '/card/<card>/control/<name>/volume', {value})
Post(c, s, volume) == [client |-> c, kind |-> "volume", card |-> s.card, name |-> s.name,
                       value |-> volume, form |-> "ok", seq |-> inputs]

\* the interaction in progress has sent no write request
NoWrite == -1

\* syncSliderUI
syncSliderUI(c, s, volume) ==
    [rendered EXCEPT ![c][s].Volume = clamp(volume, 0, 100)]

\* handlePointerDown on slider s with the pointer at v; the one pointer is down
\* on at most one slider
PointerDown(c, s, v) ==
    /\ loaded[c]
    /\ activeSlider[c] = NoSlider
    /\ activeSlider' = [activeSlider EXCEPT ![c] = s]
    /\ activeDragControl' = [activeDragControl EXCEPT ![c] = s]
    /\ rendered' = syncSliderUI(c, s, v)
    /\ inputs' = inputs + 1
    /\ touched' = [touched EXCEPT ![c] = @ \cup {s}]
    /\ lastWrite' = [lastWrite EXCEPT ![c] = NoWrite]
    /\ UNCHANGED <<loaded, keyHeld, consumed, posts, now, lastSendTime>>
    /\ UNCHANGED <<hubVars, deltaVars, monVars, coolVars, srvVars>>

\* handlePointerMove with the pointer at v; sendVolumeThrottled returns when
\* fewer than THROTTLE_MS have passed since lastSendTime
PointerMove(c, v) ==
    /\ loaded[c]
    /\ activeSlider[c] # NoSlider
    /\ rendered' = syncSliderUI(c, activeSlider[c], v)
    /\ IF now - lastSendTime[c] < THROTTLE_MS
       THEN UNCHANGED <<posts, lastSendTime, lastWrite>>
       ELSE /\ lastSendTime' = [lastSendTime EXCEPT ![c] = now]
            /\ posts' = posts \cup {Post(c, activeSlider[c], clamp(v, 0, 100))}
            /\ lastWrite' = [lastWrite EXCEPT ![c] = now]
    /\ inputs' = inputs + 1
    /\ UNCHANGED <<loaded, activeSlider, activeDragControl, keyHeld, consumed, touched, now>>
    /\ UNCHANGED <<hubVars, deltaVars, monVars, coolVars, srvVars>>

\* a release that sends its write request through sendVolumeThrottled
PointerUpThrottled(c, v) ==
    /\ loaded[c]
    /\ activeSlider[c] # NoSlider
    /\ rendered' = syncSliderUI(c, activeSlider[c], v)
    /\ posts' = IF now - lastSendTime[c] < THROTTLE_MS
                THEN posts
                ELSE posts \cup {Post(c, activeSlider[c], clamp(v, 0, 100))}
    /\ activeDragControl' = [activeDragControl EXCEPT ![c] = NoSlider]
    /\ activeSlider' = [activeSlider EXCEPT ![c] = NoSlider]
    /\ lastWrite' = [lastWrite EXCEPT ![c] = NoWrite]
    /\ UNCHANGED <<loaded, keyHeld, consumed, inputs, touched, now, lastSendTime>>
    /\ UNCHANGED <<hubVars, deltaVars, monVars, coolVars, srvVars>>

\* clearPointerCapture, on pointerup and pointercancel, with the pointer at v
PointerUp(c, v) ==
    /\ loaded[c]
    /\ activeSlider[c] # NoSlider
    /\ rendered' = syncSliderUI(c, activeSlider[c], v)
    /\ posts' = posts \cup {Post(c, activeSlider[c], clamp(v, 0, 100))}
    /\ activeDragControl' = [activeDragControl EXCEPT ![c] = NoSlider]
    /\ activeSlider' = [activeSlider EXCEPT ![c] = NoSlider]
    /\ lastWrite' = [lastWrite EXCEPT ![c] = NoWrite]
    /\ UNCHANGED <<loaded, keyHeld, consumed, inputs, touched, now, lastSendTime>>
    /\ UNCHANGED <<hubVars, deltaVars, monVars, coolVars, srvVars>>

\* handleKeyDown of an arrow key on slider s, the first of a held key or a
\* repeat: setActiveDrag, the post, and clearActiveDrag in the same handler
KeyDown(c, s, delta) ==
    /\ loaded[c]
    /\ keyHeld[c] \in {NoSlider, s}
    /\ keyHeld' = [keyHeld EXCEPT ![c] = s]
    /\ rendered' = syncSliderUI(c, s, rendered[c][s].Volume + delta)
    /\ posts' = posts \cup {Post(c, s, clamp(rendered[c][s].Volume + delta, 0, 100))}
    /\ activeDragControl' = [activeDragControl EXCEPT ![c] = NoSlider]
    /\ inputs' = inputs + 1
    /\ touched' = [touched EXCEPT ![c] = @ \cup {s}]
    /\ lastWrite' = [lastWrite EXCEPT ![c] = now]
    /\ UNCHANGED <<loaded, activeSlider, consumed, now, lastSendTime>>
    /\ UNCHANGED <<hubVars, deltaVars, monVars, coolVars, srvVars>>

\* the key is released: no listener is registered for keyup
KeyUp(c) ==
    /\ keyHeld[c] # NoSlider
    /\ keyHeld' = [keyHeld EXCEPT ![c] = NoSlider]
    /\ lastWrite' = [lastWrite EXCEPT ![c] = NoWrite]
    /\ UNCHANGED <<loaded, rendered, activeSlider, activeDragControl, consumed, posts,
                   inputs, touched, now, lastSendTime>>
    /\ UNCHANGED <<hubVars, deltaVars, monVars, coolVars, srvVars>>

\* time passes
TimePasses ==
    /\ now < StartTime + MaxElapsed
    /\ now' = now + TimeStep
    /\ UNCHANGED <<loaded, rendered, activeSlider, activeDragControl, keyHeld, consumed,
                   posts, inputs, touched, lastSendTime, lastWrite>>
    /\ UNCHANGED <<hubVars, deltaVars, monVars, coolVars, srvVars>>

\* the positions the pointer is dragged to
DragLevels == {40, 60}

\* the input events of the pages and the clock, with no server
DragNext ==
    \/ \E c \in Clients : PageLoad(c)
    \/ \E c \in Clients : \E s \in Sliders : \E v \in DragLevels :
          inputs < MaxDragInputs /\ PointerDown(c, s, v)
    \/ \E c \in Clients : \E v \in DragLevels : inputs < MaxDragInputs /\ PointerMove(c, v)
    \/ \E c \in Clients : \E v \in DragLevels : PointerUp(c, v)
    \/ \E c \in Clients : \E s \in Sliders : \E delta \in {30} :
          inputs < MaxDragInputs /\ KeyDown(c, s, delta)
    \/ \E c \in Clients : KeyUp(c)
    \/ TimePasses

(***************************************************************************)
(* server.CardControlVolumeHandler                                         *)
(***************************************************************************)
\* the goroutines started by handlers
HandlerSlots == {"h1", "h2", "h3"}

\* the goroutine of the next go statement
FreeSlot == CHOOSE p \in HandlerSlots : pending[p] = NoEvent

\* the event of the volume handler
HandlerEvent(k, n, volume, muted) ==
    [id |-> nextId, type |-> "mixer-update", source |-> "handler", control |-> n,
     state |-> (CardKey(k) :> (n :> [Volume |-> <<volume>>, Mute |-> muted]))]

\* no request has been answered
NoReply == [status |-> 0, failed |-> {}]

\* the backend calls of a write handler, by their place: ListControls in
\* resolveVolumeControlName, ListControls of the check that the control
\* exists, SetVolume, GetMute and SetMute of the mute handler, and
\* ListControls, GetVolume and GetMute in getControlView
HandlerCalls ==
    {"resolve", "exists", "SetVolume", "GetMuteNow", "SetMute", "view", "GetVolume", "GetMute"}

\* the calls that fail while one request is handled: none, or one while
\* failures may still happen
HandlerFailures ==
    {{}} \cup (IF readFailures < MaxReadFailures THEN {{f} : f \in HandlerCalls} ELSE {})

\* a backend call fails by itself, or because the card cannot be opened
CallFails(F, call, k) == call \in F \/ k \notin CardIds

\* Mixer.ListControls: the integer and boolean controls of the card
ListedControls(k) == IF k \in CardIds THEN SnapshotControls(k) ELSE {}

\* getControlView returns a view: ListControls succeeds and lists the control
HasControlView(F, k, n) == ~CallFails(F, "view", k) /\ n \in ListedControls(k)

\* the status CardControlVolumeHandler answers with: 400 for a card id or a
\* value that does not parse and for a control the listing lacks, 500 when
\* SetVolume fails, 204 otherwise
VolumeStatus(req, F) ==
    IF req.card < 0 \/ req.form # "ok"
    THEN 400
    ELSE IF ~CallFails(F, "exists", req.card) /\ req.name \notin ListedControls(req.card)
    THEN 400
    ELSE IF CallFails(F, "SetVolume", req.card) \/ req.name \notin CardControls(req.card)
    THEN 500
    ELSE 204

\* the backend calls CardControlVolumeHandler makes for req, as far as it gets
VolumeCalls(req, F) ==
    IF req.card < 0 \/ req.form # "ok"
    THEN {}
    ELSE {"resolve", "exists"}
         \cup (IF ~CallFails(F, "exists", req.card) /\ req.name \notin ListedControls(req.card)
               THEN {} ELSE {"SetVolume"})
         \cup (IF VolumeStatus(req, F) = 204 THEN {"view"} ELSE {})
         \cup (IF VolumeStatus(req, F) = 204 /\ HasControlView(F, req.card, req.name)
               THEN {"GetVolume", "GetMute"} ELSE {})

\* CardControlVolumeHandler on request req: parse, clamp, the check that the
\* control exists, SetVolume, getControlView, go s.hub.Broadcast, 204
CardControlVolumeHandler(req) ==
    /\ req \in posts
    /\ req.kind = "volume"
    /\ posts' = posts \ {req}
    /\ \E p \in HandlerSlots : pending[p] = NoEvent
    /\ \E F \in HandlerFailures :
         /\ readFailures' = readFailures + (IF F = {} THEN 0 ELSE 1)
         /\ reply' = [req |-> req, status |-> VolumeStatus(req, F),
                      failed |-> {call \in VolumeCalls(req, F) : CallFails(F, call, req.card)}]
         /\ IF VolumeStatus(req, F) # 204
            THEN UNCHANGED <<hw, hwLast, pending, precedes, nextId>>
            ELSE /\ hw' = [hw EXCEPT ![req.card].Controls[req.name].Volume =
                                        <<clamp(req.value, 0, 100)>>]
                 /\ hwLast' = [hwLast EXCEPT ![req.card][req.name] =
                                  [by |-> req.client, seen |-> Connected]]
                 /\ IF HasControlView(F, req.card, req.name)
                    THEN Send(FreeSlot, HandlerEvent(req.card, req.name,
                                        clamp(req.value, 0, 100),
                                        IF CallFails(F, "GetMute", req.card) THEN FALSE
                                        ELSE hw[req.card].Controls[req.name].Mute))
                    ELSE UNCHANGED <<pending, precedes, nextId>>
    /\ UNCHANGED <<hubRunning, stopCh, hubClients, pc, closed, cancelled, eventCh,
                   stream, hbCount, accepted>>
    /\ UNCHANGED <<hwChanges, monRunning, ticks, monCur, lastState>>
    /\ UNCHANGED <<loaded, rendered, activeSlider, activeDragControl, keyHeld, consumed,
                   inputs, touched>>
    /\ UNCHANGED <<deltaVars, coolVars, clockVars>>

\* the status CardControlMuteHandler answers with: 400 for a card id that does
\* not parse, 500 when GetMute or SetMute fails, 200 otherwise
MuteStatus(req, F) ==
    IF req.card < 0
    THEN 400
    ELSE IF CallFails(F, "GetMuteNow", req.card) \/ req.name \notin CardControls(req.card)
    THEN 500
    ELSE IF CallFails(F, "SetMute", req.card)
    THEN 500
    ELSE 200

\* the backend calls CardControlMuteHandler makes for req, as far as it gets
MuteCalls(req, F) ==
    IF req.card < 0
    THEN {}
    ELSE {"resolve", "GetMuteNow"}
         \cup (IF CallFails(F, "GetMuteNow", req.card) \/ req.name \notin CardControls(req.card)
               THEN {} ELSE {"SetMute"})
         \cup (IF MuteStatus(req, F) = 200 THEN {"view"} ELSE {})
         \cup (IF MuteStatus(req, F) = 200 /\ HasControlView(F, req.card, req.name)
               THEN {"GetVolume", "GetMute"} ELSE {})

\* ctrl.VolumeNow of getControlView: 0 when GetVolume fails or returns nothing
VolumeNow(F, k, n) ==
    IF CallFails(F, "GetVolume", k) \/ Len(hw[k].Controls[n].Volume) = 0
    THEN 0
    ELSE hw[k].Controls[n].Volume[1]

\* CardControlMuteHandler on request req: GetMute, SetMute of the opposite,
\* getControlView, go s.hub.Broadcast, 200 with the new state
CardControlMuteHandler(req) ==
    /\ req \in posts
    /\ req.kind = "mute"
    /\ posts' = posts \ {req}
    /\ \E p \in HandlerSlots : pending[p] = NoEvent
    /\ \E F \in HandlerFailures :
         /\ readFailures' = readFailures + (IF F = {} THEN 0 ELSE 1)
         /\ reply' = [req |-> req, status |-> MuteStatus(req, F),
                      failed |-> {call \in MuteCalls(req, F) : CallFails(F, call, req.card)}]
         /\ IF MuteStatus(req, F) # 200
            THEN UNCHANGED <<hw, hwLast, pending, precedes, nextId>>
            ELSE /\ hw' = [hw EXCEPT ![req.card].Controls[req.name].Mute = ~@]
                 /\ hwLast' = [hwLast EXCEPT ![req.card][req.name] =
                                  [by |-> req.client, seen |-> Connected]]
                 /\ IF HasControlView(F, req.card, req.name)
                    THEN Send(FreeSlot, HandlerEvent(req.card, req.name,
                                        VolumeNow(F, req.card, req.name),
                                        ~hw[req.card].Controls[req.name].Mute))
                    ELSE UNCHANGED <<pending, precedes, nextId>>
    /\ UNCHANGED <<hubRunning, stopCh, hubClients, pc, closed, cancelled, eventCh,
                   stream, hbCount, accepted>>
    /\ UNCHANGED <<hwChanges, monRunning, ticks, monCur, lastState>>
    /\ UNCHANGED <<loaded, rendered, activeSlider, activeDragControl, keyHeld, consumed,
                   inputs, touched>>
    /\ UNCHANGED <<deltaVars, coolVars, clockVars>>

\* CardControlMuteHandler up to and including m.GetMute: the request is kept
\* with the state that was read, as its value (1 for muted)
MuteHandlerGet(req) ==
    /\ req \in posts
    /\ req.kind = "mute"
    /\ posts' = (posts \ {req})
                  \cup {[req EXCEPT !.kind = "mute-read",
                                    !.value = IF hw[req.card].Controls[req.name].Mute
                                              THEN 1 ELSE 0]}
    /\ UNCHANGED <<loaded, rendered, activeSlider, activeDragControl, keyHeld, consumed,
                   inputs, touched>>
    /\ UNCHANGED <<hubVars, deltaVars, monVars, coolVars, srvVars, clockVars>>

\* CardControlMuteHandler from newMuted := !currentMuted on: SetMute,
\* getControlView, go s.hub.Broadcast, 200 with the new state
MuteHandlerSet(req) ==
    /\ req \in posts
    /\ req.kind = "mute-read"
    /\ posts' = posts \ {req}
    /\ \E p \in HandlerSlots : pending[p] = NoEvent
    /\ hw' = [hw EXCEPT ![req.card].Controls[req.name].Mute = (req.value = 0)]
    /\ hwLast' = [hwLast EXCEPT ![req.card][req.name] =
                     [by |-> req.client, seen |-> Connected]]
    /\ reply' = [req |-> req, status |-> 200, failed |-> {}, muted |-> (req.value = 0)]
    /\ Send(FreeSlot, HandlerEvent(req.card, req.name, VolumeNow({}, req.card, req.name),
                                   req.value = 0))
    /\ UNCHANGED <<hubRunning, stopCh, hubClients, pc, closed, cancelled, eventCh,
                   stream, hbCount, accepted>>
    /\ UNCHANGED <<hwChanges, readFailures, monRunning, ticks, monCur, lastState>>
    /\ UNCHANGED <<loaded, rendered, activeSlider, activeDragControl, keyHeld, consumed,
                   inputs, touched>>
    /\ UNCHANGED <<deltaVars, coolVars, clockVars>>

\* the write requests a client of the HTTP interface sends: to card 0, to a
\* card that does not exist (7) and with a card id that is no number (-1), for
\* a control of the card and for one it lacks, with a value in range, one out
\* of range, and one that is no number
WriteRequests ==
    {[client |-> "c1", kind |-> kd, card |-> k, name |-> n, value |-> v, form |-> f,
      seq |-> 0] :
        kd \in {"volume", "mute"}, k \in {-1, 0, 7}, n \in {"Master", "Bogus"},
        v \in {40, 150}, f \in {"ok", "invalid"}}

\* a client sends write request req
Submit(req) ==
    /\ inputs < MaxRequests
    /\ inputs' = inputs + 1
    /\ posts' = posts \cup {req}
    /\ UNCHANGED <<loaded, rendered, activeSlider, activeDragControl, keyHeld, consumed,
                   touched>>
    /\ UNCHANGED <<hubVars, deltaVars, monVars, coolVars, srvVars, clockVars>>

\* write requests, their handlers, and the hub taking the handlers' events
WriteNext ==
    \/ \E req \in WriteRequests : Submit(req)
    \/ \E req \in posts : CardControlVolumeHandler(req)
    \/ \E req \in posts : CardControlMuteHandler(req)
    \/ \E p \in HandlerSlots : HubBroadcast(p)

\* a click on the mute toggle of slider s: the button's POST to
\* /card/<card>/control/<name>/mute
ToggleClick(c, s) ==
    /\ loaded[c]
    /\ inputs' = inputs + 1
    /\ posts' = posts \cup {[client |-> c, kind |-> "mute", card |-> s.card, name |-> s.name,
                             value |-> 0, form |-> "ok", seq |-> inputs]}
    /\ UNCHANGED <<loaded, rendered, activeSlider, activeDragControl, keyHeld, consumed,
                   touched>>
    /\ UNCHANGED <<hubVars, deltaVars, monVars, coolVars, srvVars, clockVars>>

\* handleToggleResponse(btn): aria-checked becomes its opposite
handleToggleResponse(c, s) ==
    [rendered[c] EXCEPT ![s].Mute = ~@]

\* htmx:afterRequest on the toggle whose request has been answered
ToggleResponse(c) ==
    /\ reply # NoReply
    /\ reply.req.client = c
    /\ reply.req.kind = "mute"
    /\ rendered' = [rendered EXCEPT
                      ![c] = handleToggleResponse(c, [card |-> reply.req.card,
                                                      name |-> reply.req.name])]
    /\ reply' = NoReply
    /\ UNCHANGED <<loaded, activeSlider, activeDragControl, keyHeld, consumed, posts, inputs,
                   touched>>
    /\ UNCHANGED <<hubVars, deltaVars, monVars, coolVars, clockVars>>

\* the request of the last click has completed
RequestDone == posts = {} /\ reply = NoReply

\* one browser that clicks the mute toggle of Master, each click after the
\* request of the one before has completed, with the poller running; the
\* poller's ticks that see no change are left out
MuteNext ==
    \/ PageLoad("c1")
    \/ Connect("c1")
    \/ inputs < MaxToggles /\ pc["c1"] = "run" /\ RequestDone
         /\ ToggleClick("c1", [card |-> 0, name |-> "Master"])
    \/ \E req \in posts : CardControlMuteHandler(req)
    \/ ToggleResponse("c1")
    \/ \E p \in HandlerSlots \cup {"mon"} : HubBroadcast(p)
    \/ RunEvent("c1") /\ closed' = closed
    \/ BrowserReceive("c1")
    \/ MonTick /\ lastState' # lastState

(***************************************************************************)
(* Client.Close and Client.WriteEvent, one statement at a time             *)
(***************************************************************************)
\* the client whose Close is followed
Subject == "c1"

\* a Close that does not take c.mu
MuFreeAlways == TRUE

\* c.mu.Lock() can return
MuFree == closing.mu = "free"

\* a step of Close or WriteEvent: closing becomes next, and what neither
\* function touches stays
ClosingStep(next) ==
    /\ closing' = next
    /\ UNCHANGED <<stopCh, stream, hbCount, nextId, precedes>>
    /\ UNCHANGED <<dCur, dLast, dOut, fEvent, fOut, fan, shutdown, monVars, syncVars>>

\* caller t calls Close and waits for c.mu
CloseCallBy(t) == [closing EXCEPT !.at[t] = "want", !.calls[t] = @ + 1]

\* the owner of the client calls Close
OwnerClose ==
    /\ pc[Subject] # "none"
    /\ closing.at["owner"] = "idle"
    /\ closing.calls["owner"] < MaxCloseCalls
    /\ ClosingStep(CloseCallBy("owner"))
    /\ UNCHANGED <<hubRunning, hubClients, pc, closed, cancelled, eventCh, pending,
                   accepted>>

\* Client.Run, case event := <-c.eventCh: the write fails and Run calls Close
RunWriteFails ==
    /\ pc[Subject] = "run"
    /\ eventCh[Subject] # << >>
    /\ eventCh' = [eventCh EXCEPT ![Subject] = Tail(@)]
    /\ pc' = [pc EXCEPT ![Subject] = "closing"]
    /\ ClosingStep(CloseCallBy("writer"))
    /\ UNCHANGED <<hubRunning, hubClients, closed, cancelled, pending, accepted>>

\* Client.Run, case <-c.done: return
RunSeesDone ==
    /\ pc[Subject] = "run"
    /\ closing.doneCloses > 0
    /\ pc' = [pc EXCEPT ![Subject] = "exited"]
    /\ ClosingStep(closing)
    /\ UNCHANGED <<hubRunning, hubClients, closed, cancelled, eventCh, pending, accepted>>

\* Hub.Run, case client := <-h.unregister, sent by ServeHTTP's deferred
\* Unregister: delete the client and call Close if it is in the map
UnregisterCase ==
    /\ hubRunning
    /\ closing.at["hub"] = "idle"
    /\ pc[Subject] = "exited"
    /\ pc' = [pc EXCEPT ![Subject] = "gone"]
    /\ IF Subject \in hubClients
       THEN /\ hubClients' = hubClients \ {Subject}
            /\ ClosingStep([CloseCallBy("hub") EXCEPT !.why = "unregister"])
       ELSE /\ UNCHANGED hubClients
            /\ ClosingStep(closing)
    /\ UNCHANGED <<hubRunning, closed, cancelled, eventCh, pending, accepted>>

\* Hub.Run, case <-h.stop: call Close on the client in the map and delete it;
\* Run returns when the range is over
StopCase ==
    /\ hubRunning
    /\ stopCh
    /\ closing.at["hub"] = "idle"
    /\ IF Subject \in hubClients
       THEN /\ hubClients' = hubClients \ {Subject}
            /\ ClosingStep([CloseCallBy("hub") EXCEPT !.why = "stop"])
            /\ UNCHANGED hubRunning
       ELSE /\ hubRunning' = FALSE
            /\ ClosingStep(closing)
            /\ UNCHANGED hubClients
    /\ UNCHANGED <<pc, closed, cancelled, eventCh, pending, accepted>>

\* Close: c.mu.Lock(), and the test of c.closed
CloseLock(t) ==
    /\ closing.at[t] = "want"
    /\ MuFree
    /\ ClosingStep([closing EXCEPT !.mu = t,
                                   !.at[t] = IF closed[Subject] THEN "unlock" ELSE "locked"])
    /\ UNCHANGED <<hubRunning, hubClients, pc, closed, cancelled, eventCh, pending,
                   accepted>>

\* Close: c.cancel()
CloseCancel(t) ==
    /\ closing.at[t] = "locked"
    /\ cancelled' = [cancelled EXCEPT ![Subject] = TRUE]
    /\ ClosingStep([closing EXCEPT !.at[t] = "cancelled", !.cancelCalls = @ + 1])
    /\ UNCHANGED <<hubRunning, hubClients, pc, closed, eventCh, pending, accepted>>

\* Close: close(c.done), which panics when c.done is closed already
CloseDone(t) ==
    /\ closing.at[t] = "cancelled"
    /\ ClosingStep([closing EXCEPT !.at[t] = "doneClosed",
                                   !.doneCloses = @ + 1,
                                   !.panicked = @ \/ closing.doneCloses > 0])
    /\ UNCHANGED <<hubRunning, hubClients, pc, closed, cancelled, eventCh, pending,
                   accepted>>

\* Close: c.closed = true
CloseFlag(t) ==
    /\ closing.at[t] = "doneClosed"
    /\ closed' = [closed EXCEPT ![Subject] = TRUE]
    /\ ClosingStep([closing EXCEPT !.at[t] = "unlock"])
    /\ UNCHANGED <<hubRunning, hubClients, pc, cancelled, eventCh, pending, accepted>>

\* Close: the deferred c.mu.Unlock() and the return to the caller; Client.Run
\* returns after it, and so does Hub.Run in its stop case
CloseReturn(t) ==
    /\ closing.at[t] = "unlock"
    /\ ClosingStep([closing EXCEPT !.mu = "free", !.at[t] = "idle",
                                   !.returned = @ + 1,
                                   !.why = IF t = "hub" THEN "none" ELSE @])
    /\ pc' = IF t = "writer" THEN [pc EXCEPT ![Subject] = "exited"] ELSE pc
    /\ hubRunning' = IF t = "hub" /\ closing.why = "stop" THEN FALSE ELSE hubRunning
    /\ UNCHANGED <<hubClients, closed, cancelled, eventCh, pending, accepted>>

\* caller t is in WriteEvent and has read c.closed under c.mu
WriteRead(t) ==
    [closing EXCEPT !.at[t] = "wrRead",
                    !.wr[t] = [after |-> closing.returned > 0,
                               saw |-> closed[Subject],
                               result |-> "none"]]

\* the owner of the client calls WriteEvent: the read of c.closed under c.mu
OwnerWrite ==
    /\ pc[Subject] # "none"
    /\ closing.at["owner"] = "idle"
    /\ closing.writes < MaxCloseWrites
    /\ MuFree
    /\ ClosingStep([WriteRead("owner") EXCEPT !.writes = @ + 1])
    /\ UNCHANGED <<hubRunning, hubClients, pc, closed, cancelled, eventCh, pending,
                   accepted>>

\* Hub.Run, case event := <-h.broadcast, when the range reaches the client:
\* WriteEvent's read of c.closed under c.mu
HubWrite ==
    /\ hubRunning
    /\ closing.at["hub"] = "idle"
    /\ pending["p1"] # NoEvent
    /\ Subject \in hubClients
    /\ MuFree
    /\ ClosingStep(WriteRead("hub"))
    /\ UNCHANGED <<hubRunning, hubClients, pc, closed, cancelled, eventCh, pending,
                   accepted>>

\* Hub.Run, case event := <-h.broadcast, when the client is not in the map
HubNoWrite ==
    /\ hubRunning
    /\ closing.at["hub"] = "idle"
    /\ pending["p1"] # NoEvent
    /\ Subject \notin hubClients
    /\ pending' = [pending EXCEPT !["p1"] = NoEvent]
    /\ ClosingStep(closing)
    /\ UNCHANGED <<hubRunning, hubClients, pc, closed, cancelled, eventCh, accepted>>

\* the event of t's WriteEvent
WriteArg(t) == IF t = "hub" THEN pending["p1"] ELSE [id |-> 0, type |-> "test-event"]

\* WriteEvent after the read: the error when it saw c.closed set, else the
\* select on c.eventCh; on an error the hub deletes the client and calls Close
WriteSelect(t) ==
    /\ closing.at[t] = "wrRead"
    /\ LET ok == ~closing.wr[t].saw /\ Len(eventCh[Subject]) < QueueCap
           res == [closing EXCEPT !.wr[t].result = IF ok THEN "ok" ELSE "err"]
       IN  /\ eventCh' = [eventCh EXCEPT ![Subject] = IF ok THEN Append(@, WriteArg(t)) ELSE @]
           /\ accepted' = [accepted EXCEPT ![Subject] = IF ok THEN Append(@, WriteArg(t)) ELSE @]
           /\ IF t = "hub" /\ ~ok
              THEN /\ hubClients' = hubClients \ {Subject}
                   /\ ClosingStep([res EXCEPT !.at[t] = "want", !.calls[t] = @ + 1,
                                              !.why = "evict"])
              ELSE /\ UNCHANGED hubClients
                   /\ ClosingStep([res EXCEPT !.at[t] = "idle"])
    /\ pending' = IF t = "hub" THEN [pending EXCEPT !["p1"] = NoEvent] ELSE pending
    /\ UNCHANGED <<hubRunning, pc, closed, cancelled>>

CloseNext ==
    \/ HubRegister(Subject)
    \/ BroadcastCall("p1", MaxCloseEvents)
    \/ HubStop
    \/ PeerDisconnect(Subject)
    \/ RunCtxDone(Subject)
    \/ RunSeesDone
    \/ RunWriteFails
    \/ OwnerClose
    \/ OwnerWrite
    \/ HubWrite
    \/ HubNoWrite
    \/ UnregisterCase
    \/ StopCase
    \/ \E t \in Closers : CloseLock(t)
    \/ \E t \in Closers : CloseCancel(t)
    \/ \E t \in Closers : CloseDone(t)
    \/ \E t \in Closers : CloseFlag(t)
    \/ \E t \in Closers : CloseReturn(t)
    \/ \E t \in {"hub", "owner"} : WriteSelect(t)

(***************************************************************************)
(* main's shutdown: Server.Stop, Monitor.Stop, Hub.Stop                    *)
(***************************************************************************)
\* the goroutine of configWatcherLoop as a caller of Hub.Broadcast
Watcher == "p2"

\* a step of the shutdown: shutdown becomes next and the rest stays
ShutdownStep(next) ==
    /\ shutdown' = next
    /\ UNCHANGED <<hubVars, dCur, dLast, dOut, fEvent, fOut, fan, closing, monVars, syncVars>>

\* Monitor.Stop: close(m.stopCh)
StopCloseStopCh ==
    /\ shutdown.main = "serving"
    /\ ShutdownStep([shutdown EXCEPT !.main = "closing", !.stopCh = TRUE])

\* Monitor.Stop: m.watcher.Close(), which closes the watcher's channels
StopCloseWatcher ==
    /\ shutdown.main = "closing"
    /\ ShutdownStep([shutdown EXCEPT !.main = "waiting", !.watcher = "closed"])

\* a Stop that does not wait for the loops
LoopsExitedNoWait == TRUE

\* the WaitGroup's counter is 0: both loops have run their deferred wg.Done
LoopsExited == ~monRunning /\ ~shutdown.cfgLoop

\* Monitor.Stop: m.wg.Wait() returns, and Server.Stop goes on to
\* s.server.Shutdown(ctx)
StopWaitReturns ==
    /\ shutdown.main = "waiting"
    /\ LoopsExited
    /\ ShutdownStep([shutdown EXCEPT !.main = "httpShutdown"])

\* s.server.Shutdown(ctx) returns, when the connections are idle or when the
\* 10 s of ctx are over
HttpShutdownReturns ==
    /\ shutdown.main = "httpShutdown"
    /\ ShutdownStep([shutdown EXCEPT !.main = "hubStop"])

\* main: hub.Stop()
MainHubStop == shutdown.main = "hubStop" /\ HubStop

\* monitorLoop: case <-m.stopCh
MonLoopStop == shutdown.stopCh /\ MonStop

\* configWatcherLoop: case event := <-m.watcher.Events with a write or
\* create, and m.hub.Broadcast of a config-change event
ConfigEvent ==
    /\ shutdown.cfgLoop
    /\ shutdown.watcher = "open"
    /\ shutdown.events < MaxConfigEvents
    /\ pending[Watcher] = NoEvent
    /\ Send(Watcher, [id |-> nextId, type |-> "config-change"])
    /\ shutdown' = [shutdown EXCEPT !.events = @ + 1]
    /\ UNCHANGED <<hubRunning, stopCh, hubClients, pc, closed, cancelled, eventCh,
                   stream, hbCount, accepted>>
    /\ UNCHANGED <<dCur, dLast, dOut, fEvent, fOut, fan, closing, monVars, syncVars>>

\* configWatcherLoop returns: case <-m.stopCh, or a receive from a closed
\* channel of the watcher
ConfigLoopStop ==
    /\ shutdown.cfgLoop
    /\ pending[Watcher] = NoEvent
    /\ shutdown.stopCh \/ shutdown.watcher = "closed"
    /\ ShutdownStep([shutdown EXCEPT !.cfgLoop = FALSE])

\* the two loops of the poller, the hub with a connection whose writer loop
\* may stall, and main from the signal on
ShutdownNext ==
    \/ \E k \in CardIds : \E n \in SnapshotControls(k) : HwChange(k, n)
    \/ MonTick
    \/ ConfigEvent
    \/ \E p \in {"mon", Watcher} : HubBroadcast(p)
    \/ HubRegister("c1")
    \/ RunEvent("c1")
    \/ StopCloseStopCh
    \/ StopCloseWatcher
    \/ MonLoopStop
    \/ ConfigLoopStop
    \/ StopWaitReturns
    \/ HttpShutdownReturns
    \/ MainHubStop
    \/ HubRunStop

\* one drag on the Master slider of one page, and the server handling its
\* write requests in any order
DragWriteNext ==
    \/ PageLoad("c1")
    \/ \E v \in DragLevels :
          touched["c1"] = {} /\ PointerDown("c1", [card |-> 0, name |-> "Master"], v)
    \/ \E v \in DragLevels : inputs < MaxDragInputs /\ PointerMove("c1", v)
    \/ \E v \in DragLevels : PointerUp("c1", v)
    \/ TimePasses
    \/ \E req \in posts : CardControlVolumeHandler(req)
    \/ \E p \in HandlerSlots : HubBroadcast(p)

\* the write requests of two clients of the HTTP interface to Master
OrderRequests ==
    {[client |-> "c2", kind |-> "volume", card |-> 0, name |-> "Master", value |-> v,
      form |-> "ok", seq |-> 0] : v \in DragLevels}

\* a page that only listens, and two write requests to one control with the
\* goroutines that carry their events to the hub
OrderNext ==
    \/ PageLoad("c1")
    \/ Connect("c1")
    \/ \E req \in OrderRequests : pc["c1"] = "run" /\ Submit(req)
    \/ \E req \in posts : CardControlVolumeHandler(req)
    \/ \E p \in HandlerSlots : HubBroadcast(p)
    \/ RunEvent("c1") /\ closed' = closed
    \/ BrowserReceive("c1")

\* mute requests of one page to one control, sent without waiting, and
\* their handlers, each in the goroutine of its request
ToggleNext ==
    \/ PageLoad("c1")
    \/ inputs < MaxToggles /\ ToggleClick("c1", [card |-> 0, name |-> "Master"])
    \/ \E req \in posts : MuteHandlerGet(req)
    \/ \E req \in posts : MuteHandlerSet(req)
    \/ \E p \in HandlerSlots : HubBroadcast(p)

\* the poller at start over a backend that has used up its failures
MonInitReliable ==
    /\ hw = HwInit
    /\ hwChanges = 0
    /\ readFailures = MaxReadFailures
    /\ monRunning = TRUE
    /\ ticks = 0
    /\ monCur = Nil
    /\ lastState = Nil
    /\ hwLast = [k \in CardIds |-> [n \in CardControls(k) |-> [by |-> "none", seen |-> {}]]]

\* no browser yet
SyncInit ==
    /\ loaded = [c \in Clients |-> FALSE]
    /\ rendered = [c \in Clients |-> [s \in Sliders |-> [Volume |-> 0, Mute |-> FALSE]]]
    /\ activeSlider = [c \in Clients |-> NoSlider]
    /\ activeDragControl = [c \in Clients |-> NoSlider]
    /\ keyHeld = [c \in Clients |-> NoSlider]
    /\ consumed = [c \in Clients |-> 0]
    /\ posts = {}
    /\ inputs = 0
    /\ touched = [c \in Clients |-> {}]
    /\ recentlyModifiedControl = [c \in Clients |-> NoSlider]
    /\ cooldownTimers = [c \in Clients |-> 0]
    /\ reply = NoReply
    /\ now = StartTime
    /\ lastSendTime = [c \in Clients |-> 0]
    /\ lastWrite = [c \in Clients |-> NoWrite]

\* nothing is on its way: no request is in flight, no Broadcast call waits, the
\* queues are empty and the browsers have handled what was written to them
Settled ==
    /\ posts = {}
    /\ \A p \in Publishers : pending[p] = NoEvent
    /\ \A c \in Clients : eventCh[c] = << >> /\ consumed[c] = Len(stream[c])

\* every browser has its page and its event stream
AllConnected == \A c \in Clients : loaded[c] /\ pc[c] = "run"

\* the schedules in which both browsers connect first, a request is handled
\* and an event delivered before the next input, tick or change, the poller's
\* ticks that see no change are left out, and network and backend do not fail
SyncNext ==
    \/ \E c \in Clients : PageLoad(c)
    \/ \E c \in Clients : Connect(c)
    \/ \E c \in Clients : RunEvent(c) /\ closed' = closed
    \/ \E c \in Clients : BrowserReceive(c)
    \/ \E c \in Clients : \E s \in Sliders : \E v \in Levels :
          inputs < MaxInputs /\ AllConnected /\ Settled /\ PointerDown(c, s, v)
    \/ \E c \in Clients : \E v \in Levels :
          inputs < MaxInputs /\ AllConnected /\ Settled /\ PointerMove(c, v)
    \/ \E c \in Clients : \E v \in Levels : AllConnected /\ Settled /\ PointerUp(c, v)
    \/ \E c \in Clients : \E s \in Sliders : \E delta \in {30} :
          inputs < MaxInputs /\ AllConnected /\ Settled /\ KeyDown(c, s, delta)
    \/ \E c \in Clients : AllConnected /\ Settled /\ KeyUp(c)
    \/ \E req \in posts : CardControlVolumeHandler(req)
    \/ \E p \in HandlerSlots \cup {"mon"} : HubBroadcast(p)
    \/ \E s \in Sliders : AllConnected /\ Settled /\ HwChange(s.card, s.name)
    \/ AllConnected /\ Settled /\ MonTick /\ lastState' # lastState

(***************************************************************************)
(* The mixer-sync.js that keeps a cooldown after an interaction            *)
(***************************************************************************)
\* shouldSkipUpdate
shouldSkipUpdate(c, s) ==
    recentlyModifiedControl[c] # NoSlider /\ recentlyModifiedControl[c].name = s.name

\* the entry of slider s in payload.state.Cards
CardsEntry(state, s) ==
    IF /\ CardKey(s.card) \in DOMAIN state.Cards
       /\ s.name \in DOMAIN state.Cards[CardKey(s.card)].Controls
    THEN state.Cards[CardKey(s.card)].Controls[s.name]
    ELSE NoEntry

\* handleMixerUpdate of this revision: what browser c renders after the payload
handleMixerUpdateCooldown(c, payload) ==
    IF "state" \notin DOMAIN payload \/ "Cards" \notin DOMAIN payload.state
    THEN rendered[c]
    ELSE [s \in Sliders |->
            IF CardsEntry(payload.state, s) = NoEntry
            THEN rendered[c][s]
            ELSE IF payload.source = "handler" /\ shouldSkipUpdate(c, s)
            THEN rendered[c][s]
            ELSE IF payload.source # "handler" /\ recentlyModifiedControl[c] # NoSlider
            THEN rendered[c][s]
            ELSE IF shouldSkipUpdate(c, s)
            THEN rendered[c][s]
            ELSE [Volume |-> IF Len(CardsEntry(payload.state, s).Volume) > 0
                             THEN clamp(CardsEntry(payload.state, s).Volume[1], 0, 100)
                             ELSE rendered[c][s].Volume,
                  Mute |-> CardsEntry(payload.state, s).Mute]]

\* window.app.setRecentlyModified, called when the user has operated slider s
setRecentlyModified(c, s) ==
    /\ loaded[c]
    /\ cooldownTimers[c] < MaxTimers
    /\ recentlyModifiedControl' = [recentlyModifiedControl EXCEPT ![c] = s]
    /\ cooldownTimers' = [cooldownTimers EXCEPT ![c] = @ + 1]
    /\ touched' = [touched EXCEPT ![c] = @ \cup {s}]
    /\ UNCHANGED <<loaded, rendered, activeSlider, activeDragControl, keyHeld, consumed,
                   posts, inputs>>
    /\ UNCHANGED <<hubVars, deltaVars, monVars, srvVars, clockVars>>

\* a callback of setTimeout runs after MODIFIED_COOLDOWN_MS
CooldownTimeout(c) ==
    /\ cooldownTimers[c] > 0
    /\ cooldownTimers' = [cooldownTimers EXCEPT ![c] = @ - 1]
    /\ recentlyModifiedControl' = [recentlyModifiedControl EXCEPT ![c] = NoSlider]
    /\ UNCHANGED <<loaded, rendered, activeSlider, activeDragControl, keyHeld, consumed,
                   posts, inputs, touched>>
    /\ UNCHANGED <<hubVars, deltaVars, monVars, srvVars, clockVars>>

\* the events the server sends about the sliders: those of the volume handler
\* and the deltas of the poller
ArrivingEvents ==
    {HandlerEvent(s.card, s.name, v, m) : s \in Sliders, v \in {10, 40}, m \in BOOLEAN}
    \cup {MonitorEvent([Cards |-> (s.card :> [Controls |->
                          (s.name :> [Volume |-> <<v>>, Mute |-> m])])]) :
             s \in Sliders, v \in {10, 40}, m \in BOOLEAN}

\* the listener for mixer-update of this revision gets event e from the stream
CooldownReceive(c, e) ==
    /\ loaded[c]
    /\ consumed[c] = Len(stream[c])
    /\ Len(stream[c]) < MaxArrivals
    /\ stream' = [stream EXCEPT ![c] = Append(@, e)]
    /\ consumed' = [consumed EXCEPT ![c] = @ + 1]
    /\ rendered' = [rendered EXCEPT ![c] = handleMixerUpdateCooldown(c, Payload(e))]
    /\ UNCHANGED <<loaded, activeSlider, activeDragControl, keyHeld, posts, inputs, touched,
                   coolVars>>
    /\ UNCHANGED <<hubRunning, stopCh, hubClients, pc, closed, cancelled, eventCh,
                   hbCount, nextId, pending, precedes, accepted>>
    /\ UNCHANGED <<deltaVars, monVars, srvVars, clockVars>>

\* one page of the cooldown revision, its user and the events that reach it
CooldownNext ==
    \/ PageLoad("c1")
    \/ \E s \in Sliders : setRecentlyModified("c1", s)
    \/ CooldownTimeout("c1")
    \/ \E e \in ArrivingEvents : CooldownReceive("c1", e)

HubNext ==
    \/ \E c \in Clients : HubRegister(c)
    \/ \E c \in Clients : HubUnregister(c)
    \/ \E p \in Publishers : BroadcastCall(p, MaxEvents)
    \/ \E p \in Publishers : HubBroadcast(p)
    \/ HubStop
    \/ HubRunStop
    \/ \E c \in Clients : RunCtxDone(c)
    \/ \E c \in Clients : RunDone(c)
    \/ \E c \in Clients : RunHeartbeat(c)
    \/ \E c \in Clients : RunEvent(c)
    \/ \E c \in Clients : PeerDisconnect(c)
    \/ \E c \in Clients : ClientClose(c)

\* connections that come and go while events are published and the hub is
\* stopped
StopNext ==
    \/ \E c \in Clients : RegisterCall(c)
    \/ \E c \in Clients : HubRegister(c)
    \/ \E c \in Clients : HubUnregister(c)
    \/ BroadcastCall("p1", MaxEvents)
    \/ HubBroadcast("p1")
    \/ HubStop
    \/ HubRunStop
    \/ \E c \in Clients : RunCtxDone(c)
    \/ \E c \in Clients : RunDone(c)
    \/ \E c \in Clients : RunEvent(c)
    \/ \E c \in Clients : PeerDisconnect(c)

\* the hub after NewHub, with the poller and the browsers at their start
Init == HubInit /\ DeltaParked /\ MonInit /\ SyncInit

SpecHub == Init /\ [][HubNext]_vars

\* connections that are cancelled by their peers while one publisher
\* broadcasts and the hub may be stopped
CancelNext ==
    \/ \E c \in Clients : HubRegister(c)
    \/ \E c \in Clients : HubUnregister(c)
    \/ BroadcastCall("p1", MaxEvents)
    \/ HubBroadcast("p1")
    \/ HubStop
    \/ HubRunStop
    \/ \E c \in Clients : RunCtxDone(c)
    \/ \E c \in Clients : RunDone(c)
    \/ \E c \in Clients : RunHeartbeat(c)
    \/ \E c \in Clients : RunEvent(c)
    \/ \E c \in Clients : PeerDisconnect(c)

\* the Go scheduler runs a writer loop whose context is done, and the hub loop
\* receives from h.unregister when a handler sends on it
SpecCancelFair ==
    /\ Init /\ [][CancelNext]_vars
    /\ \A c \in Clients : WF_vars(RunCtxDone(c)) /\ WF_vars(HubUnregister(c))

\* the poller over a backend that fails every call, while the hardware
\* changes, connections are made and another publisher broadcasts, with
\* peers that read what is written to them
DegradedNext ==
    \/ MonTickUnavailable
    \/ \E k \in CardIds : \E n \in SnapshotControls(k) : HwChange(k, n)
    \/ \E c \in Clients : HubRegister(c)
    \/ \E c \in Clients : RunHeartbeat(c) /\ pc' = pc
    \/ BroadcastCall("p1", MaxEvents)
    \/ HubBroadcast("p1")
    \/ \E c \in Clients : RunEvent(c) /\ pc' = pc

\* the heartbeat ticker of a writer loop fires at every interval
SpecDegraded ==
    /\ Init /\ [][DegradedNext]_vars
    /\ \A c \in Clients : WF_vars(RunHeartbeat(c) /\ pc' = pc)

\* a burst of events to connections whose writer loops are stalled in a
\* write to the network and take nothing from their channels, while the hub
\* is not stopped
StallNext ==
    \/ \E c \in Clients : RegisterCall(c)
    \/ \E c \in Clients : LoopRegister(c)
    \/ \E c \in Clients : LoopUnregister(c)
    \/ BroadcastCall("p1", MaxBurst)
    \/ LoopTake("p1")
    \/ \E c \in Clients : LoopWrite(c)
    \/ LoopDone
    \/ \E c \in Clients : RunCtxDone(c)
    \/ \E c \in Clients : RunDone(c)

\* the Go scheduler runs the goroutine of Run, and its select takes a case
\* that stays ready; nothing is assumed about the writer loops
SpecStall ==
    /\ Init
    /\ [][StallNext]_vars
    /\ \A c \in Clients : WF_vars(LoopRegister(c)) /\ WF_vars(LoopUnregister(c))
    /\ WF_vars(LoopTake("p1"))
    /\ \A c \in Clients : WF_vars(LoopWrite(c))
    /\ WF_vars(LoopDone)

\* Run one statement at a time among concurrent callers
SpecLoop == Init /\ [][LoopNext]_vars

SpecStop == Init /\ [][StopNext]_vars

\* the Go scheduler runs a writer loop whose channel holds an event
SpecHubFair == SpecHub /\ \A c \in Clients : WF_vars(RunEvent(c))

\* a burst of events from one publisher to connections that only read or stall
BurstNext ==
    \/ \E c \in Clients : HubRegister(c)
    \/ \E c \in Clients : HubUnregister(c)
    \/ BroadcastCall("p1", MaxBurst)
    \/ HubBroadcast("p1")
    \/ \E c \in Clients : RunCtxDone(c)
    \/ \E c \in Clients : RunDone(c)
    \/ \E c \in Clients : RunEvent(c)

SpecBurst == Init /\ [][BurstNext]_vars

\* computeDelta applied to every pair of snapshots
\* computeDelta about to be called on any arguments
InitDelta == HubInit /\ DeltaInit /\ MonInit /\ SyncInit

SpecDelta == InitDelta /\ [][DeltaCall]_vars

\* Event.String about to be called on any event
InitFormat == HubInit /\ FormatInit /\ MonInit /\ SyncInit

SpecFormat == InitFormat /\ [][FormatCall]_vars

\* the poller over hardware that changes and fails, publishing to the hub
SpecMon == Init /\ [][MonNext]_vars

SpecMonList == Init /\ [][MonListNext]_vars

\* one client whose Close is called by the hub, its writer loop and its owner
SpecClose == Init /\ [][CloseNext]_vars

\* browsers, the write path, the poller and the hub together
\* as Init, over a backend whose calls succeed
InitReliable == HubInit /\ DeltaParked /\ MonInitReliable /\ SyncInit

SpecSync == InitReliable /\ [][SyncNext]_vars

\* the write side of the page on its own, with a clock
SpecDrag == InitReliable /\ [][DragNext]_vars

\* the Go scheduler runs main, the hub's Run and the two loops of the poller
\* when they can take a step; a select with m.stopCh closed takes that case
\* after finitely many others
SpecShutdown ==
    /\ InitReliable
    /\ [][ShutdownNext]_vars
    /\ WF_vars(StopCloseWatcher) /\ WF_vars(StopWaitReturns)
    /\ WF_vars(HttpShutdownReturns) /\ WF_vars(MainHubStop)
    /\ WF_vars(MonLoopStop) /\ WF_vars(ConfigLoopStop)
    /\ WF_vars(HubBroadcast("mon")) /\ WF_vars(HubBroadcast(Watcher))

\* a page whose mute toggle is clicked
SpecMute == InitReliable /\ [][MuteNext]_vars

\* a drag and the handlers of its write requests
SpecDragWrite == InitReliable /\ [][DragWriteNext]_vars

\* two writes to one control and a page that listens
SpecOrder == InitReliable /\ [][OrderNext]_vars

\* mute requests whose handlers run concurrently
SpecToggle == InitReliable /\ [][ToggleNext]_vars

\* the write handlers on their own, over a backend whose calls may fail
SpecWrite == Init /\ [][WriteNext]_vars

\* the page of the cooldown revision on its own
SpecCooldown == InitReliable /\ [][CooldownNext]_vars

(***************************************************************************)
(* Properties of the hub and its clients                                   *)
(***************************************************************************)
\* the test event with id i
TestEvent(i) == [id |-> i, type |-> "test-event"]

\* how many times e occurs in the sequence s
Count(s, e) == Cardinality({i \in 1..Len(s) : s[i] = e})

\* the step in which Run receives the event of publisher p
Processes(p) == hubRunning /\ pending[p] # NoEvent /\ pending'[p] = NoEvent

\* C1, first part: a broadcast processed while every registered client is open
\* and has room in its queue appends the event once to the queue of each of
\* them and removes none of them
C1_EnqueuedOnce ==
    \A p \in Publishers :
        (Processes(p) /\ \A c \in hubClients : ~closed[c] /\ Len(eventCh[c]) < QueueCap)
        => /\ hubClients' = hubClients
           /\ \A c \in hubClients :
                /\ eventCh'[c] = Append(eventCh[c], pending[p])
                /\ Count(eventCh'[c], pending[p]) = 1
                /\ Count(stream'[c], pending[p]) = 0

\* C1, second part: an event is never in a client's queue or stream twice
C1_NeverTwice ==
    \A c \in Clients : \A i \in 1..MaxEvents :
        Count(stream[c], TestEvent(i)) + Count(eventCh[c], TestEvent(i)) <= 1

\* C1 (fan-out exactly once): a broadcast to N registered, open clients with
\* free capacity enqueues the event to each exactly once, and each client whose
\* writer loop keeps running writes it to its stream, exactly once
C1_FanOutExactlyOnce ==
    /\ [][C1_EnqueuedOnce]_vars
    /\ []C1_NeverTwice
    /\ \A c \in Clients : \A i \in 1..MaxEvents :
         (Count(eventCh[c], TestEvent(i)) = 1)
             ~> (Count(stream[c], TestEvent(i)) = 1 \/ pc[c] # "run")

\* both connections are registered and open, and each has written event 1 once
C1_Witness ==
    \A c \in Clients :
        /\ c \in hubClients /\ ~closed[c] /\ pc[c] = "run"
        /\ accepted[c] = <<TestEvent(1)>>
        /\ stream[c] = <<TestEvent(1)>>

\* C2 (backpressure isolation): a broadcast that finds an open client with 10
\* pending events removes and closes that client in the same step, and in that
\* same step appends the event to the queue of every other registered open
\* client that has room, which stays registered
C2_BackpressureIsolation ==
    [][ (Processes("p1")
         /\ \E s \in hubClients : ~closed[s] /\ Len(eventCh[s]) = QueueCap)
        => /\ \A s \in hubClients :
                (~closed[s] /\ Len(eventCh[s]) = QueueCap)
                => /\ s \notin hubClients'
                   /\ closed'[s] /\ cancelled'[s]
                   /\ eventCh'[s] = eventCh[s]
           /\ \A o \in hubClients :
                (~closed[o] /\ Len(eventCh[o]) < QueueCap)
                => /\ eventCh'[o] = Append(eventCh[o], pending["p1"])
                   /\ o \in hubClients'
                   /\ ~closed'[o] ]_vars

\* one client was evicted with a full queue while the other took every event,
\* the one of that broadcast included
C2_Witness ==
    \E s \in Clients : \E o \in Clients \ {s} :
        /\ closed[s] /\ s \notin hubClients /\ Len(eventCh[s]) = QueueCap
        /\ o \in hubClients /\ ~closed[o]
        /\ Len(accepted[o]) = Len(accepted[s]) + 1
        /\ Len(accepted[s]) >= QueueCap

DiffersOnlyInVolume(S1, S2, k, n) ==
    /\ DOMAIN S1.Cards = DOMAIN S2.Cards
    /\ \A j \in DOMAIN S1.Cards : DOMAIN S1.Cards[j].Controls = DOMAIN S2.Cards[j].Controls
    /\ k \in DOMAIN S1.Cards
    /\ n \in DOMAIN S1.Cards[k].Controls
    /\ S1.Cards[k].Controls[n].Volume # S2.Cards[k].Controls[n].Volume
    /\ S1.Cards[k].Controls[n].Mute = S2.Cards[k].Controls[n].Mute
    /\ \A j \in DOMAIN S1.Cards : \A m \in DOMAIN S1.Cards[j].Controls :
         <<j, m>> # <<k, n>> => S1.Cards[j].Controls[m] = S2.Cards[j].Controls[m]

\* C9 (delta correctness): when last and current differ only in the volume of
\* one control X, computeDelta(current, last) reports a change and the delta
\* holds exactly X's card with exactly X's entry, carrying current's value;
\* computeDelta(S, S) reports no change
C9_DeltaCorrect ==
    dOut # NoResult =>
        /\ \A k \in CardIds : \A n \in CardControls(k) :
             (dLast # Nil /\ DiffersOnlyInVolume(dLast, dCur, k, n))
             => /\ dOut.changed
                /\ DOMAIN dOut.delta.Cards = {k}
                /\ DOMAIN dOut.delta.Cards[k].Controls = {n}
                /\ dOut.delta.Cards[k].Controls[n] = dCur.Cards[k].Controls[n]
        /\ dLast = dCur => ~dOut.changed

\* computeDelta was called on two snapshots of two cards, the first with two controls,
\* that differ only in one control's volume, of equal length
C9_Witness ==
    /\ dOut # NoResult
    /\ dLast # Nil
    /\ DOMAIN dCur.Cards = CardIds
    /\ DOMAIN dCur.Cards[0].Controls = {"Master", "PCM"}
    /\ DiffersOnlyInVolume(dLast, dCur, 0, "Master")
    /\ dLast.Cards[0].Controls["Master"].Volume = <<10>>
    /\ dCur.Cards[0].Controls["Master"].Volume = <<40>>

\* C10 (no broadcast on no change): a poll tick whose snapshot equals the last
\* good snapshot does not call Hub.Broadcast and leaves m.lastState as it is
C10_NoBroadcastOnNoChange ==
    [][ (ticks' = ticks + 1 /\ lastState # Nil /\ monCur' = lastState)
        => /\ pending'["mon"] = NoEvent
           /\ nextId' = nextId
           /\ lastState' = lastState ]_vars

\* the first tick published the whole state and the second tick, over the
\* same hardware, read the same snapshot and published nothing
C10_Witness ==
    /\ ticks = 2 /\ hwChanges = 0 /\ readFailures = 0
    /\ lastState # Nil /\ monCur = lastState
    /\ nextId = 2 /\ pending["mon"] = NoEvent

(***************************************************************************)
(* The reconciler over the event stream                                    *)
(***************************************************************************)
\* slider s of browser c is in an interaction: between pointer-down and
\* pointer-up on it, or while a key is held on it
Dragging(c, s) == activeSlider[c] = s \/ keyHeld[c] = s

\* browser c is in no interaction at all
NoInteraction(c) == activeSlider[c] = NoSlider /\ keyHeld[c] = NoSlider

\* the event that browser c handles next
NextEvent(c) == stream[c][consumed[c] + 1]

\* event e references slider s with a volume
References(e, s) ==
    /\ "state" \in DOMAIN e
    /\ StateEntry(Payload(e).state, s) # NoEntry
    /\ Len(StateEntry(Payload(e).state, s).Volume) > 0

\* the volume that event e carries for slider s
EventVolume(e, s) == clamp(StateEntry(Payload(e).state, s).Volume[1], 0, 100)

\* the volume of slider s in the backend
HwVolume(s) == hw[s.card].Controls[s.name].Volume[1]

\* nothing is on its way and a tick of the poller would publish nothing
Quiescent ==
    /\ Settled
    /\ ~computeDelta(getCurrentState(hw, {}), lastState).changed

\* C3: while slider s is in an interaction on browser c, an event that
\* references s, from the handler or from the monitor, leaves the rendered
\* value of s on c as it is.
C3_DragSuppression ==
    [][\A c \in Clients : \A s \in Sliders :
          (/\ consumed'[c] = consumed[c] + 1
           /\ Dragging(c, s)
           /\ References(NextEvent(c), s))
          => rendered'[c][s].Volume = rendered[c][s].Volume]_vars

\* C4: while slider s is in its cooldown on browser c, an event for s from the
\* monitor leaves the rendered value of s as it is, and an event for s from
\* a handler sets the rendered volume of s to the event's volume.
C4_CooldownAsymmetry ==
    [][\A c \in Clients : \A s \in Sliders :
          (/\ consumed'[c] = consumed[c] + 1
           /\ recentlyModifiedControl[c] = s
           /\ References(stream'[c][consumed'[c]], s))
          => IF stream'[c][consumed'[c]].source = "monitor"
             THEN rendered'[c][s] = rendered[c][s]
             ELSE rendered'[c][s].Volume = EventVolume(stream'[c][consumed'[c]], s)]_vars

\* C5: an event that references a slider which browser c has never touched,
\* and which is therefore idle there, sets the rendered value of that slider
\* to the event's value, whatever the other sliders of c are doing.
C5_IdleApplies ==
    [][\A c \in Clients : \A s \in Sliders :
          (/\ consumed'[c] = consumed[c] + 1
           /\ s \notin touched[c]
           /\ References(NextEvent(c), s))
          => rendered'[c][s].Volume = EventVolume(NextEvent(c), s)]_vars

\* C6: when the last change of slider s is a write of browser a made while a
\* and b were connected, b has never touched s and is in no interaction, and
\* nothing is on its way any more, b renders the written value.
C6_WriteReachesOtherClient ==
    \A a \in Clients : \A b \in Clients \ {a} : \A s \in Sliders :
        (/\ hwLast[s.card][s.name].by = a
         /\ {a, b} \subseteq hwLast[s.card][s.name].seen
         /\ AllConnected
         /\ Quiescent
         /\ NoInteraction(b)
         /\ s \notin touched[b])
        => rendered[b][s].Volume = HwVolume(s)

\* C7: when the last change of slider s was made outside the write path while
\* browser b was connected, b has never touched s and is in no interaction,
\* and nothing is on its way any more, b renders the changed value.
C7_ExternalChangeReachesClients ==
    \A b \in Clients : \A s \in Sliders :
        (/\ hwLast[s.card][s.name].by = "external"
         /\ b \in hwLast[s.card][s.name].seen
         /\ AllConnected
         /\ Quiescent
         /\ NoInteraction(b)
         /\ s \notin touched[b])
        => rendered[b][s].Volume = HwVolume(s)

\* snapshot D is a subset of snapshot S: its cards are cards of S, its
\* controls are controls of the same card of S, with the values of S
SubSnapshot(D, S) ==
    /\ DOMAIN D.Cards \subseteq DOMAIN S.Cards
    /\ \A k \in DOMAIN D.Cards :
         /\ DOMAIN D.Cards[k].Controls \subseteq DOMAIN S.Cards[k].Controls
         /\ \A n \in DOMAIN D.Cards[k].Controls :
              /\ D.Cards[k].Controls[n].Volume = S.Cards[k].Controls[n].Volume
              /\ D.Cards[k].Controls[n].Mute = S.Cards[k].Controls[n].Mute

\* C11 (delta is a subset of the snapshot): every delta that computeDelta
\* returns holds only cards of the current snapshot, only controls of that
\* card in the current snapshot, and their volume arrays and mute flags are
\* those of the current snapshot.
C11_DeltaSubset ==
    (dOut # NoResult /\ dOut.changed) => SubSnapshot(dOut.delta, dCur)

\* computeDelta returned a delta that leaves out a card and a control of the
\* current snapshot and carries a control whose volume changed
C11_Witness ==
    /\ dOut # NoResult /\ dOut.changed
    /\ dLast # Nil
    /\ DOMAIN dCur.Cards = CardIds
    /\ DOMAIN dOut.delta.Cards = {0}
    /\ DOMAIN dCur.Cards[0].Controls = {"Master", "PCM"}
    /\ DOMAIN dOut.delta.Cards[0].Controls = {"Master"}
    /\ 0 \in DOMAIN dLast.Cards
    /\ "Master" \in DOMAIN dLast.Cards[0].Controls
    /\ dLast.Cards[0].Controls["Master"].Volume # dCur.Cards[0].Controls["Master"].Volume

\* C12 (failed enumeration skips the tick): a tick in which ListCards fails
\* (no snapshot) or ListControls fails for a card (the card is missing from
\* the snapshot) hands no event to Hub.Broadcast and leaves m.lastState as it
\* is, and the poller keeps running.
C12_FailedTickSkipped ==
    [][ (/\ ticks' = ticks + 1
         /\ \/ monCur' = Nil
            \/ DOMAIN monCur'.Cards # DOMAIN hw)
        => /\ pending'["mon"] = NoEvent
           /\ nextId' = nextId
           /\ lastState' = lastState
           /\ monRunning' ]_vars

\* a write request is taken off the wire and answered in this step
Handled == posts' \subseteq posts /\ posts' # posts

\* the events handed to Hub.Broadcast in this step
HandedToBroadcast == {p \in Publishers : pending[p] = NoEvent /\ pending'[p] # NoEvent}

\* the handler events for the control of the request answered in this step
HandlerEventsForRequest ==
    {p \in HandedToBroadcast : /\ pending'[p].source = "handler"
                               /\ pending'[p].control = reply'.req.name}

\* C13: every write request, volume set or mute toggle, that is answered with
\* a success status hands exactly one event with source "handler" for its
\* control to Broadcast
C13_SuccessOneEvent ==
    [][ (Handled /\ reply'.status \in 200..299)
        => Cardinality(HandlerEventsForRequest) = 1 ]_vars

\* C14: a volume write for a card that does not exist or does not parse, for
\* an unknown control, or with a value outside 0..100 is answered with a 4xx
\* status and hands no event to Broadcast
C14_ValidationRejects ==
    [][ (/\ Handled
         /\ reply'.req.kind = "volume"
         /\ \/ reply'.req.card \notin CardIds
            \/ reply'.req.name \notin CardControls(0) \cup CardControls(1)
            \/ reply'.req.form # "ok"
            \/ reply'.req.value \notin 0..100)
        => /\ reply'.status \in 400..499
           /\ HandedToBroadcast = {} ]_vars

\* C15: when SetVolume, GetMute or SetMute fails while a write request is
\* handled, the request is answered with an error status and no event is
\* handed to Broadcast
C15_BackendFailureNoEvent ==
    [][ (/\ Handled
         /\ reply'.failed \cap {"SetVolume", "GetMuteNow", "GetMute", "SetMute"} # {})
        => /\ reply'.status \in 400..599
           /\ HandedToBroadcast = {} ]_vars

\* the write requests sent in this step
Sent == posts' \ posts

\* C16: a release (pointerup or pointercancel) of a dragged slider sends
\* exactly one write request, for that slider and with the value the slider
\* shows after the release, whatever the time since the last throttled request
C16_FinalWriteOnRelease ==
    [][ \A c \in Clients :
          (activeSlider[c] # NoSlider /\ activeSlider'[c] = NoSlider)
          => /\ Cardinality(Sent) = 1
             /\ \A p \in Sent :
                  /\ p.client = c
                  /\ p.card = activeSlider[c].card
                  /\ p.name = activeSlider[c].name
                  /\ p.value = rendered'[c][activeSlider[c]].Volume ]_vars

\* a slider was released less than THROTTLE_MS after a move sent a request,
\* and the release sent one as well
C16_Witness ==
    \E c \in Clients :
        /\ activeSlider[c] = NoSlider
        /\ lastSendTime[c] > 0
        /\ now - lastSendTime[c] < THROTTLE_MS
        /\ \E p, q \in posts :
             /\ p.client = c /\ p.seq = inputs
             /\ q.client = c /\ q.seq = inputs - 1

\* C17: during an interaction a write request is sent no sooner than
\* THROTTLE_MS after the previous one of that interaction, and a move whose
\* request is held back still changes what the slider shows
C17_ThrottledWrites ==
    [][ /\ \A c \in Clients :
             (/\ \E p \in Sent : p.client = c
              /\ lastWrite[c] # NoWrite
              /\ lastWrite'[c] # NoWrite)
             => now - lastWrite[c] >= THROTTLE_MS
        /\ (inputs' = inputs + 1 /\ Sent = {} /\ activeSlider' = activeSlider)
             => \E c \in Clients :
                   /\ activeSlider[c] # NoSlider
                   /\ rendered'[c][activeSlider[c]].Volume \in DragLevels ]_vars

\* the suppression state of slider s in browser c
SuppressionState(c, s) ==
    IF activeDragControl[c] = s THEN "dragging"
    ELSE IF recentlyModifiedControl[c] = s THEN "cooldown"
    ELSE "idle"

\* the changes of state the reconciler is described with
Transitions ==
    {<<"idle", "dragging">>, <<"dragging", "cooldown">>, <<"cooldown", "idle">>,
     <<"cooldown", "dragging">>}

\* C18: the suppression state of a slider changes only from idle to dragging,
\* from dragging to cooldown, from cooldown to idle and from cooldown to
\* dragging; in particular never from dragging to idle
C18_SuppressionTransitions ==
    [][ \A c \in Clients : \A s \in Sliders :
          \/ SuppressionState(c, s)' = SuppressionState(c, s)
          \/ <<SuppressionState(c, s), SuppressionState(c, s)'>> \in Transitions ]_vars

\* C19: when Run takes the stop case every client of the set is closed and
\* removed, and from then on the set stays empty: a Register called after it
\* is never received
C19_StopClosesAll ==
    [][ /\ (hubRunning /\ ~hubRunning')
           => \A c \in hubClients : closed'[c] /\ c \notin hubClients'
        /\ ~hubRunning' => hubClients' = {} ]_vars

\* the hub has stopped with a client in its set, which it closed, and another
\* connection has called Register since
C19_Witness ==
    /\ ~hubRunning
    /\ \E c, d \in Clients :
         /\ pc[c] = "registering"
         /\ pc[d] = "run" /\ closed[d]

\* the writer loop of connection c has returned
Exited(c) == pc[c] \in {"exited", "gone"}

\* C20: once the context of a connection is cancelled its writer loop returns
\* and, unless the hub loop stops, the hub takes the client out of its set;
\* after the loop has returned nothing is written to the stream, and a client
\* that is out of the set stays out, so ClientCount does not count it
C20_CancelUnregisters ==
    /\ \A c \in Clients : (pc[c] = "run" /\ cancelled[c]) ~> Exited(c)
    /\ \A c \in Clients :
         (pc[c] = "run" /\ cancelled[c]) ~> (c \notin hubClients \/ ~hubRunning)
    /\ [][ \A c \in Clients :
             /\ Exited(c) => stream'[c] = stream[c]
             /\ (Exited(c) /\ c \notin hubClients)
                => (c \notin hubClients' /\ ClientCount' <= Cardinality(Clients \ {c}))
         ]_vars

\* one connection was cancelled, left its writer loop and was taken out of the
\* set of the running hub, and the writer loop of another has just returned
\* on its cancelled context
C20_Witness ==
    \E c, d \in Clients :
        /\ hubRunning
        /\ pc[c] = "exited" /\ cancelled[c] /\ ~closed[c] /\ c \in hubClients
        /\ pc[d] = "gone" /\ cancelled[d] /\ d \notin hubClients
        /\ ClientCount = 1

\* the clients whose Register is received in this step
NowRegistered == {c \in Clients : pc[c] \in {"none", "registering"} /\ pc'[c] = "run"}

\* the clients of the set whose Unregister is received in this step
NowUnregistered == {c \in hubClients : pc[c] = "exited" /\ pc'[c] = "gone"}

\* a broadcast is received and fanned out in this step
FansOut == \E p \in Publishers : pending[p] # NoEvent /\ pending'[p] = NoEvent

\* the clients of the set a fan-out of this step finds closed or full
NowEvicted ==
    {c \in hubClients : FansOut /\ (closed[c] \/ Len(eventCh[c]) = QueueCap)}

\* the clients of the set when Run takes the stop case in this step
NowStopped == {c \in hubClients : hubRunning /\ ~hubRunning'}

\* C21: ClientCount is the number of clients registered and not removed since:
\* a step changes it by the registrations it receives, less the clients it
\* removes by unregistering, by eviction or by stopping, and by nothing else;
\* when no connection has ever been made or all have gone it is zero
C21_ClientCountExact ==
    /\ [][ /\ ClientCount' = ClientCount + Cardinality(NowRegistered)
                             - Cardinality(NowUnregistered \cup NowEvicted \cup NowStopped)
           /\ hubClients' = (hubClients \cup NowRegistered)
                            \ (NowUnregistered \cup NowEvicted \cup NowStopped) ]_vars
    /\ []((\A c \in Clients : pc[c] \in {"none", "gone"}) => ClientCount = 0)

\* both connections were registered, counted, and unregistered again by a hub
\* that is still running
C21_Witness ==
    /\ hubRunning
    /\ \A c \in Clients : pc[c] = "gone"
    /\ ClientCount = 0

\* C22: a fan-out that finds a closed client in the set leaves that client's
\* queue as it is and removes it from the set; in the same step every other
\* client of the set that is open and has room gets the event appended and
\* stays in the set, and the publisher's Broadcast call has returned
C22_DeadClientDropped ==
    [][ \A p \in Publishers :
          (Processes(p) /\ \E s \in hubClients : closed[s])
          => /\ \A s \in hubClients :
                  closed[s] => /\ eventCh'[s] = eventCh[s]
                               /\ accepted'[s] = accepted[s]
                               /\ s \notin hubClients'
             /\ \A s \in hubClients :
                  (~closed[s] /\ Len(eventCh[s]) < QueueCap)
                  => /\ eventCh'[s] = Append(eventCh[s], pending[p])
                     /\ s \in hubClients'
                     /\ ~closed'[s]
             /\ pending'[p] = NoEvent ]_vars

\* a connection that its owner closed was dropped by the broadcast of event 1
\* without getting it, and the other connection got the event
C22_Witness ==
    \E c, d \in Clients :
        /\ hubRunning
        /\ pc[c] = "run" /\ closed[c] /\ c \notin hubClients /\ accepted[c] = << >>
        /\ d \in hubClients /\ ~closed[d] /\ accepted[d] = <<TestEvent(1)>>
        /\ \A p \in Publishers : pending[p] = NoEvent

\* C23: WriteEvent never blocks, so Run can take a waiting broadcast whatever
\* the queues hold; called on a client that is closed or has 10 queued events
\* it enqueues nothing and returns an error (the fan-out removes the client),
\* otherwise it appends the event and returns nil (the client stays); no
\* queue ever holds more than 10 events
C23_WriteEventNonBlocking ==
    /\ [](\A c \in Clients : Len(eventCh[c]) <= QueueCap)
    /\ []((hubRunning /\ pending["p1"] # NoEvent) => ENABLED HubBroadcast("p1"))
    /\ [][ Processes("p1") =>
             \A c \in hubClients :
                IF closed[c] \/ Len(eventCh[c]) = QueueCap
                THEN eventCh'[c] = eventCh[c] /\ c \notin hubClients'
                ELSE /\ eventCh'[c] = Append(eventCh[c], pending["p1"])
                     /\ c \in hubClients' ]_vars

\* a connection that does not read took 10 events into its queue and was
\* refused the eleventh
C23_Witness ==
    \E c \in Clients :
        /\ Len(eventCh[c]) = QueueCap
        /\ Len(accepted[c]) = QueueCap
        /\ nextId = QueueCap + 2
        /\ pending["p1"] = NoEvent
        /\ closed[c] /\ c \notin hubClients

\* C24: with every backend call failing, a tick publishes nothing, keeps the
\* poller running with its last snapshot and touches no connection; the
\* poller can always take its next tick; a connected client stays registered
\* and open, and gets its heartbeats
C24_DegradedMode ==
    /\ [][ ticks' = ticks + 1
           => /\ pending'["mon"] = NoEvent /\ nextId' = nextId
              /\ lastState' = lastState
              /\ monRunning'
              /\ pc' = pc /\ closed' = closed /\ hubClients' = hubClients ]_vars
    /\ [](monRunning /\ (ticks < MaxTicks => ENABLED MonTickUnavailable))
    /\ [](\A c \in Clients : pc[c] = "run" => c \in hubClients /\ ~closed[c])
    /\ \A c \in Clients : (pc[c] = "run") ~> (pc[c] = "run" /\ hbCount[c] = MaxHeartbeats)

\* the hardware changed and every tick was taken over the failing backend,
\* nothing was published by the poller, and both connections have had their
\* heartbeats
C24_Witness ==
    /\ ticks = MaxTicks /\ readFailures = MaxTicks
    /\ hwChanges = MaxHwChanges
    /\ monRunning /\ lastState = Nil
    /\ \A c \in Clients : pc[c] = "run" /\ hbCount[c] = MaxHeartbeats /\ stream[c] # << >>
    /\ \A i \in 1..Len(stream["c1"]) : stream["c1"][i].type = "test-event"

\* how many times token t occurs in the text s
Occurs(s, t) == Cardinality({i \in 1..Len(s) : s[i] = t})

\* where the fields end in the text of an event
FieldsEnd(e) ==
    (IF e.ID # << >> THEN Len(e.ID) + 2 ELSE 0)
    + (IF e.Type # << >> THEN Len(e.Type) + 2 ELSE 0)

\* C25: the text of an event starts with an id line exactly if ID is not
\* empty, goes on with an event line exactly if Type is not empty, then has
\* one data line for each line of the payload, exactly one for a JSON
\* payload, each starting a line, and ends with the one empty line of the text
C25_WireFormat ==
    fOut # NoResult =>
      LET e == fEvent
          out == fOut.text
          idLen == IF e.ID # << >> THEN Len(e.ID) + 2 ELSE 0
      IN  /\ Occurs(out, "id: ") = (IF e.ID # << >> THEN 1 ELSE 0)
          /\ e.ID # << >> => SubSeq(out, 1, idLen) = <<"id: ">> \o e.ID \o <<"\n">>
          /\ Occurs(out, "event: ") = (IF e.Type # << >> THEN 1 ELSE 0)
          /\ e.Type # << >>
             => SubSeq(out, idLen + 1, FieldsEnd(e)) = <<"event: ">> \o e.Type \o <<"\n">>
          /\ Occurs(out, "data: ") =
                (IF e.Kind = "html" THEN 1 + Occurs(e.Data, "\n") ELSE 1)
          /\ \A i \in 1..Len(out) :
                out[i] = "data: " => /\ i > FieldsEnd(e)
                                     /\ (i = 1 \/ out[i - 1] = "\n")
          /\ out[FieldsEnd(e) + 1] = "data: "
          /\ {i \in 1..(Len(out) - 1) : out[i] = "\n" /\ out[i + 1] = "\n"} = {Len(out) - 1}

\* String was called on an event with ID, Type and a payload of two lines
C25_Witness ==
    /\ fOut # NoResult
    /\ fEvent = [ID |-> <<"a">>, Type |-> <<"a">>, Kind |-> "html", Data |-> <<"a", "\n", "a">>]
    /\ fOut.text = <<"id: ", "a", "\n", "event: ", "a", "\n",
                     "data: ", "a", "\n", "data: ", "a", "\n", "\n">>

\* C26: Run applies the calls one at a time. While a fan-out is going on no
\* Register and no Unregister takes effect and no second broadcast is taken.
\* The client set changes only in a statement of Run: the register case, the
\* unregister case and the stop case, all taken from the select, and the
\* delete of the fan-out for the client the range is at. A fan-out writes to
\* the clients that were in the set when it began, to each at most once.
C26_OneAtATime ==
    /\ [][ fan # NoFan
           => /\ \A c \in Clients : pc[c] = "registering" => pc'[c] = "registering"
              /\ \A c \in Clients : pc[c] = "exited" => pc'[c] # "gone"
              /\ hubRunning' = hubRunning
              /\ pending' # pending => \A p \in Publishers : pending'[p] # NoEvent
                                                              \/ pending[p] = NoEvent
              /\ hubClients' \subseteq hubClients ]_vars
    /\ [][ hubClients' # hubClients
           => \/ /\ fan = NoFan /\ fan' = NoFan
                 /\ \E c \in Clients :
                       \/ /\ pc[c] = "registering" /\ pc'[c] = "run"
                          /\ hubClients' = hubClients \cup {c}
                       \/ /\ pc[c] = "exited" /\ pc'[c] = "gone"
                          /\ hubClients' = hubClients \ {c}
              \/ /\ fan = NoFan /\ hubRunning /\ ~hubRunning' /\ hubClients' = {}
              \/ /\ fan # NoFan
                 /\ \E c \in fan.todo : /\ fan'.todo = fan.todo \ {c}
                                        /\ hubClients' = hubClients \ {c} ]_vars
    /\ [][ \A c \in Clients :
             accepted'[c] # accepted[c]
             => /\ fan # NoFan /\ c \in fan.todo /\ c \notin fan'.todo
                /\ accepted'[c] = Append(accepted[c], fan.event)
                /\ \A i \in 1..Len(accepted[c]) : accepted[c][i] # fan.event ]_vars

\* in the middle of a fan-out that has written to one client and not yet to
\* the other, the other publisher's Broadcast and a handler's Unregister are
\* waiting
C26_Witness ==
    /\ fan # NoFan
    /\ fan.todo = {"c2"}
    /\ accepted["c1"] = <<fan.event>>
    /\ accepted["c2"] = << >>
    /\ pc["c1"] = "exited"
    /\ \E p \in Publishers : pending[p] # NoEvent

\* every response and every event of the clicks has been handled, and the
\* poller has seen the hardware as it is
MuteQuiet ==
    /\ RequestDone
    /\ \A p \in Publishers : pending[p] = NoEvent
    /\ eventCh["c1"] = << >>
    /\ consumed["c1"] = Len(stream["c1"])
    /\ lastState = getCurrentState(hw, {})

\* C27: once the responses and events of a sequence of mute clicks, each made
\* after the request before it completed, have been handled, the toggle shows
\* the hardware mute state.
C27_MuteInSync ==
    (pc["c1"] = "run" /\ inputs > 0 /\ MuteQuiet)
    => rendered["c1"][[card |-> 0, name |-> "Master"]].Mute = hw[0].Controls["Master"].Mute

\* Monitor.Stop has returned
StopReturned == shutdown.main \in {"httpShutdown", "hubStop"}

\* C28: the shutdown of main terminates: once Monitor.Stop has closed
\* m.stopCh, Monitor.Stop returns, then Shutdown, then hub.Stop is called.
\* Monitor.Stop returns only when monitorLoop and configWatcherLoop have both
\* exited, and from then on neither calls Hub.Broadcast and no call of theirs
\* is waiting.
C28_ShutdownTerminates ==
    /\ [](StopReturned => /\ ~monRunning /\ ~shutdown.cfgLoop
                          /\ pending["mon"] = NoEvent /\ pending[Watcher] = NoEvent)
    /\ [][StopReturned => /\ pending'["mon"] = NoEvent /\ pending'[Watcher] = NoEvent
                          /\ nextId' = nextId /\ lastState' = lastState]_vars
    /\ (shutdown.stopCh ~> StopReturned)
    /\ (shutdown.stopCh ~> (shutdown.main = "hubStop" /\ stopCh))

\* main has called hub.Stop after a Monitor.Stop that returned, in a run
\* where the poller published a snapshot and the watcher a config change
C28_Witness ==
    /\ shutdown.main = "hubStop" /\ stopCh
    /\ lastState # Nil
    /\ shutdown.events = 1
    /\ ticks > 1

\* C29: the callback of a timer that an earlier release started does not end
\* the cooldown of a later release: when a callback runs while a later timer
\* is still to run (the timers have the same delay, so they run in the order
\* in which they were started), the control in cooldown stays in cooldown.
C29_EarlierTimerKeepsCooldown ==
    [][ \A c \in Clients :
          (cooldownTimers'[c] < cooldownTimers[c] /\ cooldownTimers'[c] > 0)
          => recentlyModifiedControl'[c] = recentlyModifiedControl[c] ]_vars

\* C30: while Run is running every call of Register, Unregister and Broadcast
\* returns, whatever the writer loops do and however full the channels are:
\* Run is never stopped by a client, the next iteration of a fan-out can
\* always be taken.
C30_CallsReturn ==
    /\ [](fan # NoFan => \A c \in fan.todo : ENABLED LoopWrite(c))
    /\ \A c \in Clients : (pc[c] = "registering") ~> (pc[c] # "registering")
    /\ \A c \in Clients : (pc[c] = "exited") ~> (pc[c] = "gone")
    /\ (pending["p1"] # NoEvent) ~> (pending["p1"] = NoEvent)

\* both channels were full and nothing had been written to the connections
\* when the next Broadcast was called, and the call has returned
C30_Witness ==
    /\ hubRunning
    /\ nextId = MaxBurst + 1
    /\ pending["p1"] = NoEvent
    /\ fan = NoFan
    /\ \A c \in Clients : Len(accepted[c]) = QueueCap /\ closed[c]
    /\ \A c \in Clients : stream[c] = << >> /\ Len(eventCh[c]) = QueueCap

\* the poller hands an event to Hub.Broadcast in this step
MonPublishes == pending["mon"] = NoEvent /\ pending'["mon"] # NoEvent

\* the control entries of a snapshot or delta
Entries(snap) ==
    {<<k, n>> \in CardIds \X {"Master", "PCM", "Mic", "Source"} :
        k \in DOMAIN snap.Cards /\ n \in DOMAIN snap.Cards[k].Controls}

\* C31: every event the poller publishes is a mixer-update with source
\* "monitor" whose delta has at least one control entry, the event of the
\* first successful tick included.
C31_NonEmptyDelta ==
    [][ MonPublishes
        => /\ pending'["mon"].type = "mixer-update"
           /\ pending'["mon"].source = "monitor"
           /\ Entries(pending'["mon"].state) # {} ]_vars

\* the events browser c has handled that reference slider s
HandledFor(c, s) == {i \in 1..consumed[c] : References(stream[c][i], s)}

\* the last of them
LastHandledFor(c, s) ==
    stream[c][CHOOSE i \in HandledFor(c, s) : \A j \in HandledFor(c, s) : j <= i]

\* C32: an event for slider s that browser c dropped is made up for. When
\* the last event that c handled for s carries the value the hardware has
\* now, c is in no interaction, and nothing is on its way and the poller
\* has nothing to publish, c renders that value: if the event was dropped,
\* a later one has repaired it.
C32_DroppedEventRepaired ==
    \A c \in Clients : \A s \in Sliders :
        (/\ AllConnected
         /\ Quiescent
         /\ NoInteraction(c)
         /\ HandledFor(c, s) # {}
         /\ EventVolume(LastHandledFor(c, s), s) = HwVolume(s))
        => rendered[c][s].Volume = HwVolume(s)

\* C33: when the drag on a slider has ended and the server has handled every
\* write request of the drag, in whatever order, the hardware holds the
\* value at which the slider was released, which is the one the page shows.
C33_FinalValueWins ==
    (/\ [card |-> 0, name |-> "Master"] \in touched["c1"]
     /\ activeSlider["c1"] = NoSlider
     /\ posts = {})
    => HwVolume([card |-> 0, name |-> "Master"])
          = rendered["c1"][[card |-> 0, name |-> "Master"]].Volume

\* C34: the hub receives the handler events in the order in which their
\* writes were applied to the hardware (the order of their ids): Run does not
\* take a handler's event while an earlier one is still waiting, and a page
\* that was connected before the writes and has handled their events shows
\* the value the hardware holds.
C34_EventsInWriteOrder ==
    /\ [][ \A p \in HandlerSlots :
             (pending[p] # NoEvent /\ pending'[p] = NoEvent)
             => \A q \in HandlerSlots :
                  pending[q] # NoEvent => pending[p].id <= pending[q].id ]_vars
    /\ [](( /\ Settled
            /\ pc["c1"] = "run"
            /\ consumed["c1"] = inputs )
          => rendered["c1"][[card |-> 0, name |-> "Master"]].Volume
                = HwVolume([card |-> 0, name |-> "Master"]))

\* the mute requests that have been answered with success
TogglesDone == nextId - 1

\* C35: every successful mute request inverts the hardware state once: when
\* no request is being handled, Master is muted, which it was not at the
\* start, iff the number of successful requests is odd; and the state a
\* request writes is the one in its response and in its event.
C35_ToggleParity ==
    /\ [](posts = {} => (hw[0].Controls["Master"].Mute <=> TogglesDone % 2 = 1))
    /\ [][ \A req \in posts :
             (req.kind = "mute-read" /\ req \notin posts')
             => /\ reply'.muted = hw'[0].Controls["Master"].Mute
                /\ \E p \in HandlerSlots :
                     /\ pending[p] = NoEvent /\ pending'[p] # NoEvent
                     /\ pending'[p].state["0"]["Master"].Mute
                          = hw'[0].Controls["Master"].Mute ]_vars

\* C36: no caller stays blocked on a stopped hub: once Run has returned, a
\* waiting Register, a waiting Unregister (the deferred call of a ServeHTTP
\* whose writer loop has returned) and a waiting Broadcast can each still
\* complete.
C36_StoppedHubReleasesCallers ==
    ~hubRunning
    => /\ \A c \in Clients : pc[c] = "registering" => ENABLED HubRegister(c)
       /\ \A c \in Clients : pc[c] = "exited" => ENABLED HubUnregister(c)
       /\ \A p \in Publishers : pending[p] # NoEvent => ENABLED HubBroadcast(p)

\* the events the poller has published so far, when connection c1 was there
\* for all of them: those the hub has fanned out and the one that is waiting
PublishedDeltas ==
    [i \in 1..(nextId - 1) |->
        IF i <= Len(accepted["c1"]) THEN accepted["c1"][i].state ELSE pending["mon"].state]

\* c1 has missed none of the poller's events
HistoryComplete ==
    Len(accepted["c1"]) + (IF pending["mon"] = NoEvent THEN 0 ELSE 1) = nextId - 1

\* the values per control after delta d is applied to the values in A
ApplyDelta(A, d) ==
    [e \in DOMAIN A \cup Entries(d) |->
        IF e \in Entries(d) THEN d.Cards[e[1]].Controls[e[2]] ELSE A[e]]

\* the values per control after the first i deltas of ds are applied in order
RECURSIVE ApplyDeltas(_, _)
ApplyDeltas(ds, i) ==
    IF i = 0 THEN [e \in {} |-> Nil] ELSE ApplyDelta(ApplyDeltas(ds, i - 1), ds[i])

\* C37: the deltas the poller has published, applied in the order of their
\* publication with the later value winning, give for every control of the
\* last good snapshot the volume array and mute flag of that snapshot.
C37_DeltasRebuildLastState ==
    (HistoryComplete /\ lastState # Nil)
    => \A e \in Entries(lastState) :
          /\ e \in DOMAIN ApplyDeltas(PublishedDeltas, nextId - 1)
          /\ ApplyDeltas(PublishedDeltas, nextId - 1)[e] = lastState.Cards[e[1]].Controls[e[2]]

\* two deltas were published, the second after a change of the hardware,
\* and a read of the backend failed in between
C37_Witness ==
    /\ HistoryComplete
    /\ nextId >= 3
    /\ hwChanges = 1
    /\ readFailures = 1
    /\ lastState # Nil
    /\ Entries(PublishedDeltas[2]) # Entries(PublishedDeltas[1])

\* C38: a delta the poller publishes contains a control only if no earlier
\* delta contained it or its volume array or mute flag differs from the one
\* the poller published for it last.
C38_OnlyChangesPublished ==
    [][ (MonPublishes /\ HistoryComplete)
        => \A e \in Entries(pending'["mon"].state) :
              \/ e \notin DOMAIN ApplyDeltas(PublishedDeltas, nextId - 1)
              \/ ApplyDeltas(PublishedDeltas, nextId - 1)[e]
                    # pending'["mon"].state.Cards[e[1]].Controls[e[2]] ]_vars

\* C39: a poll tick whose snapshot lacks cards or controls of the last good
\* snapshot and agrees with it on everything it holds publishes no event and
\* leaves m.lastState, the absent entries included, as it is.
C39_AbsentEntriesKept ==
    [][ ( /\ ticks' = ticks + 1
          /\ lastState # Nil /\ monCur' # Nil
          /\ monCur' # lastState
          /\ SubSnapshot(monCur', lastState) )
        => /\ pending'["mon"] = NoEvent
           /\ nextId' = nextId
           /\ lastState' = lastState
           /\ \E e \in Entries(lastState') : e \notin Entries(monCur') ]_vars

\* after the first tick published the whole state, a later tick read a
\* snapshot with an entry missing and nothing else different: one event was
\* published in all and m.lastState still holds the entry the tick did not see
C39_Witness ==
    /\ ticks >= 2 /\ readFailures = 1 /\ nextId = 2
    /\ pending["mon"] = NoEvent
    /\ lastState # Nil /\ monCur # Nil /\ monCur # lastState
    /\ SubSnapshot(monCur, lastState)
    /\ \E e \in Entries(lastState) : e \notin Entries(monCur)

\* C40: however often and from however many goroutines Client.Close is
\* called, close(c.done) and c.cancel() are executed at most once and exactly
\* once when a Close has returned, no close(c.done) panics, and a WriteEvent
\* that started after a Close had returned returns an error.
C40_CloseOnce ==
    /\ ~closing.panicked
    /\ closing.doneCloses <= 1
    /\ closing.cancelCalls <= 1
    /\ closing.returned > 0
         => /\ closing.doneCloses = 1
            /\ closing.cancelCalls = 1
            /\ closed[Subject] /\ cancelled[Subject]
    /\ \A t \in Closers :
         (closing.wr[t].after /\ closing.wr[t].result # "none")
            => closing.wr[t].result = "err"

\* the owner has called Close twice and the hub or the writer loop at least
\* once, every call has returned, c.done was closed and the context cancelled
\* once, and a WriteEvent of the owner that started after a Close had returned
\* got an error
C40_Witness ==
    /\ closing.calls["owner"] = 2
    /\ closing.calls["hub"] + closing.calls["writer"] >= 1
    /\ closing.returned = closing.calls["owner"] + closing.calls["hub"]
                             + closing.calls["writer"]
    /\ closing.doneCloses = 1 /\ closing.cancelCalls = 1
    /\ closing.wr["owner"].after /\ closing.wr["owner"].result = "err"

====
